---- MODULE Spec2Model ----
(***************************************************************************)
(* State-machine model of the BioClub+ backend (Express + Prisma):         *)
(* commission ledger, withdrawal workflow, admin routes, bank data,        *)
(* coupon usage in order creation and referral resolution at registration. *)
(* Every HTTP handler is one action (or, in the interleaved               *)
(* specifications, one action per awaited database call).                  *)
(***************************************************************************)
EXTENDS Integers, Sequences, FiniteSets, TLC

VARIABLES
    users,          \* table users: id -> row
    bankData,       \* table bank_data: userId -> row (userId @unique)
    commissions,    \* table commissions: sequence of rows
    withdrawals,    \* table withdrawal_requests: sequence of rows, id = index
    adminEmailsEnv, \* process.env.ADMIN_EMAILS: {} when unset, else {list}
    resp,           \* the response sent to the last handled request
    procs,          \* in-flight requests of the interleaved specifications
    coupons,        \* table coupons: id -> row
    userCoupons,    \* table user_coupons: <<userId, couponId>> -> usageCount
    orders,         \* table orders: sequence of rows
    products,       \* table products: id -> row
    dataRequests,   \* table data_subject_requests: sequence of rows, id = index
    subscriptions,  \* table subscriptions: userId -> row (userId @unique)
    billingHistory, \* table billing_history: sequence of rows
    addresses,      \* table addresses: userId -> row (userId @unique)
    userConsents,   \* table user_consents: set of <<userId, consentType>>
    auditLogs,      \* table audit_logs: sequence of rows
    nodeEnv,        \* process.env.NODE_ENV
    now,            \* the clock, in years
    outbox,         \* the mails the SMTP transport delivered: <<to, kind>>
    activityLogs    \* table activity_logs: sequence of rows

vars == <<users, bankData, commissions, withdrawals, adminEmailsEnv, resp,
          procs, coupons, userCoupons, orders, products, dataRequests,
          subscriptions,
          billingHistory, addresses, userConsents, auditLogs, nodeEnv, now,
          outbox, activityLogs>>

\* the tables of the withdrawal workflow, of the shop and of the LGPD workflow
ledgerVars == <<users, bankData, commissions, withdrawals>>
shopVars == <<coupons, userCoupons, orders, products>>
lgpdVars == <<dataRequests, subscriptions, billingHistory, addresses,
             userConsents, auditLogs>>
\* the surroundings of the server: configuration, clock and mail transport
\* the variables only a few handlers write
settingVars == <<adminEmailsEnv, nodeEnv, now, activityLogs>>
envVars == <<settingVars, outbox>>

NULL == "NULL"

----------------------------------------------------------------------------
(* Bounds of the model *)

MaxWithdrawals == 2     \* rows of withdrawal_requests in Spec
MaxAdminRows == 1       \* rows of withdrawal_requests in SpecAdmin
MaxBankRows == 1        \* rows of withdrawal_requests in SpecBank
MaxDataRequests == 2    \* rows of data_subject_requests in SpecBank

----------------------------------------------------------------------------
(* JavaScript values and comparisons.                                      *)
(* req.body comes from express.json() / express.urlencoded(): `amount` is  *)
(* untyped, a JSON number or a string.  Prisma returns Decimal columns     *)
(* and their aggregates as Decimal objects, whose valueOf() is a string,    *)
(* so that a relational operator between a string and a Decimal compares   *)
(* two strings, code unit by code unit.                                    *)

Num(n) == [kind |-> "num", v |-> n]
Str(n) == [kind |-> "str", v |-> n]   \* the decimal numeral of n, as a string
Dec(n) == [kind |-> "dec", v |-> n]   \* a Prisma Decimal

RECURSIVE NumStr(_)
NumStr(n) == IF n < 10 THEN <<n>> ELSE Append(NumStr(n \div 10), n % 10)

RECURSIVE StrLess(_, _)
StrLess(s, t) ==
    IF t = <<>> THEN FALSE
    ELSE IF s = <<>> THEN TRUE
    ELSE IF Head(s) # Head(t) THEN Head(s) < Head(t)
    ELSE StrLess(Tail(s), Tail(t))

ToPrimitive(x) == IF x.kind = "dec" THEN Str(x.v) ELSE x

JsLess(a, b) ==
    LET pa == ToPrimitive(a)
        pb == ToPrimitive(b)
    IN  IF pa.kind = "str" /\ pb.kind = "str"
        THEN StrLess(NumStr(pa.v), NumStr(pb.v))
        ELSE pa.v < pb.v

JsGreater(a, b) == JsLess(b, a)
JsLessEq(a, b) == ~JsLess(b, a)
Undefined == [kind |-> "undef", v |-> 0]   \* the field is absent from the body
JsFalsy(a) == a.kind = "undef" \/ (a.kind = "num" /\ a.v = 0)

----------------------------------------------------------------------------
(* Character strings that the code transforms are sequences of characters *)

Digits == {"0", "1", "2", "3", "4", "5", "6", "7", "8", "9"}

DigitVal(c) ==
    CASE c = "0" -> 0 [] c = "1" -> 1 [] c = "2" -> 2 [] c = "3" -> 3
      [] c = "4" -> 4 [] c = "5" -> 5 [] c = "6" -> 6 [] c = "7" -> 7
      [] c = "8" -> 8 [] c = "9" -> 9

IsDigit(c) == c \in Digits

\* helpers.ts: cpf.replace(/\D/g, '')
cleanCPF(cpf) == SelectSeq(cpf, IsDigit)

RECURSIVE WeightedSum(_, _, _)
\* sum of parseInt(cpf.charAt(i)) * (w - i) for i = 0 .. n-1
WeightedSum(cpf, n, w) ==
    IF n = 0 THEN 0
    ELSE WeightedSum(cpf, n - 1, w) + DigitVal(cpf[n]) * (w - (n - 1))

CheckDigit(sum) ==
    LET remainder == 11 - (sum % 11)
    IN  IF remainder = 10 \/ remainder = 11 THEN 0 ELSE remainder

validateCPF(raw) ==
    LET cpf == cleanCPF(raw)
    IN  /\ Len(cpf) = 11
        /\ \E i \in 1..11 : cpf[i] # cpf[1]
        /\ CheckDigit(WeightedSum(cpf, 9, 10)) = DigitVal(cpf[10])
        /\ CheckDigit(WeightedSum(cpf, 10, 11)) = DigitVal(cpf[11])

Cpf1 == <<"5", "2", "9", ".", "9", "8", "2", ".", "2", "4", "7", "-", "2", "5">>
Cpf2 == <<"1", "1", "1", "4", "4", "4", "7", "7", "7", "3", "5">>
Cpf3 == <<"1", "2", "3", "4", "5", "6", "7", "8", "9", "0", "9">>
Cpf4 == <<"9", "8", "7", "6", "5", "4", "3", "2", "1", "0", "0">>
Cpf5 == <<"3", "9", "0", ".", "5", "3", "3", ".", "4", "4", "7", "-", "0", "5">>
Cpf6 == <<"1", "6", "8", "9", "9", "5", "3", "5", "0", "0", "9">>
CpfBad == <<"1", "2", "3", "4", "5", "6", "7", "8", "9", "0", "1">>
CpfZero == <<"0", "0", "0", "0", "0", "0", "0", "0", "0", "0", "0">>

----------------------------------------------------------------------------
(* Rows *)

UserIds == {"a1", "u1", "u2", "u3"}     \* users present from the start
NewIds == {"n1", "n2"}                  \* cuid()s of users created later

\* an address: the pieces of the local part, and the domain
Email(local, domain) == << <<local>>, domain >>
AdminEmail == Email("admin", "bioclubplus.com")

UserRow(email, cpf, first, code, ref, verified) ==
    [email |-> email, cpf |-> cpf, firstName |-> first, lastName |-> "Silva",
     phone |-> "11999990000", birthDate |-> "1990-01-01",
     isActive |-> TRUE, emailVerified |-> verified,
     referralCode |-> code, referredById |-> ref]

Code(a, b) == <<a, b>>

\* seed.ts: the administrator (cpf '00000000000', emailVerified true)
SeedAdmin == [UserRow(AdminEmail, CpfZero, "Admin", Code("A", "1"), NULL, TRUE)
                 EXCEPT !.lastName = "BioClub+", !.phone = NULL, !.birthDate = NULL]

\* an administrator who registered through POST /auth/register
RegisteredAdmin == UserRow(AdminEmail, cleanCPF(Cpf3), "Admin", Code("A", "1"),
                           NULL, TRUE)

InitialUsers(adminRow) ==
    [id \in UserIds |->
        CASE id = "a1" -> adminRow
          [] id = "u1" -> UserRow(Email("maria", "example.com"), cleanCPF(Cpf1), "Maria",
                                  Code("B", "2"), NULL, TRUE)
          [] id = "u2" -> UserRow(Email("joao", "example.com"), cleanCPF(Cpf2), "Joao",
                                  Code("C", "3"), "u1", TRUE)
          [] id = "u3" -> UserRow(Email("ana", "example.com"), cleanCPF(Cpf4), "Ana",
                                  Code("D", "4"), "u1", FALSE)]

CommissionRow(earner, source, amount, status) ==
    [earnerId |-> earner, sourceId |-> source, amount |-> amount,
     percentage |-> 30, status |-> status]

\* the ledgers the payment handler may have left behind
Ledger ==
    << CommissionRow("u1", "u2", 60, "AVAILABLE"),
       CommissionRow("u1", "u3", 40, "AVAILABLE"),
       CommissionRow("u1", "u2", 30, "PENDING"),
       CommissionRow("u2", "u3", 40, "AVAILABLE"),
       CommissionRow("u2", "u3", 80, "PAID"),
       CommissionRow("a1", "u1", 70, "AVAILABLE") >>

BankFields == {"bankCode", "bankName", "agency", "account", "accountType",
               "holderName", "holderCpf", "pixKey", "pixKeyType"}

ABSENT == "ABSENT"      \* an optional field the body does not carry

BankInputA ==
    [bankCode |-> "001", bankName |-> "Banco do Brasil", agency |-> "1234",
     account |-> "12345-6", accountType |-> "corrente",
     holderName |-> "Maria Silva", holderCpf |-> Cpf1,
     pixKey |-> "maria@example.com", pixKeyType |-> "email"]

BankInputB ==
    [bankCode |-> "237", bankName |-> "Bradesco", agency |-> "4321",
     account |-> "65432-1", accountType |-> "poupanca",
     holderName |-> "Joao Souza", holderCpf |-> Cpf2,
     pixKey |-> ABSENT, pixKeyType |-> ABSENT]

BankInputBad == [BankInputA EXCEPT !.holderCpf = CpfBad]

\* the rows PUT /user/bank-data creates for these inputs
StoredBankA == [BankInputA EXCEPT !.holderCpf = cleanCPF(Cpf1)]
StoredBankB == [BankInputB EXCEPT !.holderCpf = cleanCPF(Cpf2),
                                  !.pixKey = NULL, !.pixKeyType = NULL]

----------------------------------------------------------------------------
(* Tables are functions from the keys of the rows that exist *)

Put(table, key, row) == [k \in DOMAIN table \cup {key} |->
                            IF k = key THEN row ELSE table[k]]
Remove(table, key) == [k \in DOMAIN table \ {key} |-> table[k]]
EmptyTable == [k \in {} |-> 0]

RECURSIVE SumOver(_, _)
SumOver(rows, idx) ==
    IF idx = {} THEN 0
    ELSE LET i == CHOOSE j \in idx : TRUE
         IN  rows[i].amount + SumOver(rows, idx \ {i})

----------------------------------------------------------------------------
(* Responses *)

Reply(status, message) == [status |-> status, message |-> message]
Passed == Reply(0, "next()")        \* the middleware or check let the request on
NoResponse == Reply(0, "")

\* errorHandler: an Error without statusCode is answered with 500
InternalError == Reply(500, "Erro interno do servidor")

----------------------------------------------------------------------------
(* middleware/auth.ts *)

\* the request carries a valid access token issued to user id u
authenticate(u) ==
    IF u \notin DOMAIN users THEN Reply(401, "Usuário não encontrado")
    ELSE IF ~users[u].isActive THEN Reply(401, "Conta desativada")
    ELSE IF ~users[u].emailVerified THEN Reply(401, "Email não verificado")
    ELSE Passed

SeqToSet(q) == {q[i] : i \in DOMAIN q}

\* process.env.ADMIN_EMAILS?.split(',') || []
adminEmails == IF adminEmailsEnv = {} THEN {}
               ELSE SeqToSet(CHOOSE list \in adminEmailsEnv : TRUE)

\* variant: an unset ADMIN_EMAILS lets every authenticated user through
requireAdminLax(u) ==
    IF adminEmailsEnv # {} /\ users[u].email \notin adminEmails
    THEN Reply(403, "Acesso negado. Privilégios de administrador requeridos.")
    ELSE Passed

requireAdmin(u) ==
    IF users[u].email \notin adminEmails
    THEN Reply(403, "Acesso negado. Privilégios de administrador requeridos.")
    ELSE Passed

\* router.use(authenticate); router.use(requireAdmin)
AdminGate(u) == IF authenticate(u) # Passed THEN authenticate(u) ELSE requireAdmin(u)

----------------------------------------------------------------------------
(* commissions routes: POST /commissions/withdraw *)

MinWithdrawalDefault == 50

\* Number(process.env.MIN_WITHDRAWAL_AMOUNT || 50), the variable being unset
minWithdrawal == Num(MinWithdrawalDefault)

OpenStatuses == {"PENDING", "APPROVED", "PROCESSING"}

\* if (!amount || amount <= 0) ...; if (amount < minWithdrawal) ...
CheckAmount(amount) ==
    IF JsFalsy(amount) \/ JsLessEq(amount, Num(0))
    THEN Reply(400, "Valor inválido para saque")
    ELSE IF JsLess(amount, minWithdrawal)
    THEN Reply(400, "Valor mínimo para saque é R$ 50")
    ELSE Passed

\* prisma.commission.aggregate({where: {earnerId, status: 'AVAILABLE'}, _sum})
AvailableRows(u) == {i \in DOMAIN commissions :
                        /\ commissions[i].earnerId = u
                        /\ commissions[i].status = "AVAILABLE"}
AvailableSum(u) == SumOver(commissions, AvailableRows(u))

\* availableBalance._sum.amount || 0 : the sum of no rows is null
ReadBalance(u) == IF AvailableRows(u) = {} THEN Num(0) ELSE Dec(AvailableSum(u))

CheckBalance(amount, balance) ==
    IF JsGreater(amount, balance) THEN Reply(400, "Saldo insuficiente") ELSE Passed

\* prisma.bankData.findUnique({where: {userId}}) as a set of 0 or 1 rows
ReadBankData(u) == IF u \in DOMAIN bankData THEN {bankData[u]} ELSE {}

CheckBankData(found) ==
    IF found = {} THEN Reply(400, "Dados bancários não cadastrados") ELSE Passed

\* prisma.withdrawalRequest.findFirst({where: {userId, status: {in: [...]}}})
ReadPendingWithdrawal(u) == {i \in DOMAIN withdrawals :
                                /\ withdrawals[i].userId = u
                                /\ withdrawals[i].status \in OpenStatuses}

CheckPending(found) ==
    IF found # {}
    THEN Reply(400, "Você já possui uma solicitação de saque pendente")
    ELSE Passed

\* variant: the copy leaves the PIX key out
BankSnapshotNoPix(bd) == [f \in BankFields |->
                            IF f = "pixKey" THEN NULL ELSE bd[f]]

\* the bankData JSON column: a copy of nine fields of the bank_data row
BankSnapshot(bd) == [f \in BankFields |-> bd[f]]

WithdrawalRow(u, amount, bd) ==
    [userId |-> u, amount |-> amount.v, status |-> "PENDING",
     bankData |-> BankSnapshot(bd), processedAt |-> NULL, paidAt |-> NULL,
     adminNotes |-> NULL]

Created == Reply(201, "Solicitação de saque criada com sucesso")

\* the checks of the handler in the order of the code, on one database state
WithdrawVerdict(u, amount) ==
    IF CheckAmount(amount) # Passed THEN CheckAmount(amount)
    ELSE IF CheckBalance(amount, ReadBalance(u)) # Passed
    THEN CheckBalance(amount, ReadBalance(u))
    ELSE IF CheckBankData(ReadBankData(u)) # Passed
    THEN CheckBankData(ReadBankData(u))
    ELSE IF CheckPending(ReadPendingWithdrawal(u)) # Passed
    THEN CheckPending(ReadPendingWithdrawal(u))
    ELSE Created

\* variant: the insert also reserves the AVAILABLE commissions of the user
CreateWithdrawalReserving(u, amount, bd) ==
    /\ withdrawals' = Append(withdrawals, WithdrawalRow(u, amount, bd))
    /\ commissions' = [i \in DOMAIN commissions |->
            IF commissions[i].earnerId = u /\ commissions[i].status = "AVAILABLE"
            THEN [commissions[i] EXCEPT !.status = "REQUESTED"]
            ELSE commissions[i]]
    /\ UNCHANGED <<users, bankData>>

\* prisma.withdrawalRequest.create
CreateWithdrawal(u, amount, bd) ==
    /\ withdrawals' = Append(withdrawals, WithdrawalRow(u, amount, bd))
    /\ UNCHANGED <<users, bankData, commissions>>

\* the handler throws before any write: errorHandler answers
Refuse(r) ==
    /\ resp' = r
    /\ UNCHANGED <<ledgerVars, shopVars, lgpdVars>>

\* POST /commissions/withdraw handled to completion
Withdraw(u, amount) ==
    /\ UNCHANGED <<envVars, procs>>
    /\ IF authenticate(u) # Passed THEN Refuse(authenticate(u))
       ELSE IF WithdrawVerdict(u, amount) # Created
       THEN Refuse(WithdrawVerdict(u, amount))
       ELSE /\ CreateWithdrawal(u, amount, bankData[u])
            /\ resp' = Created
            /\ UNCHANGED <<shopVars, lgpdVars>>

----------------------------------------------------------------------------
(* admin routes: PATCH /admin/withdrawals/:id *)

Dates == {"2026-01-10"}       \* values of new Date()

PatchStatuses == {"APPROVED", "REJECTED", "PAID"}

Updated == Reply(200, "Solicitação de saque atualizada com sucesso")

\* updateData: status, adminNotes when given, paidAt or processedAt
PatchedRow(row, status, adminNotes, date) ==
    [row EXCEPT !.status = status,
                !.adminNotes = IF adminNotes # ABSENT THEN adminNotes ELSE @,
                !.paidAt = IF status = "PAID" THEN date ELSE @,
                !.processedAt = IF status = "APPROVED" THEN date ELSE @]

\* prisma.withdrawalRequest.update
UpdateWithdrawal(id, status, adminNotes, date) ==
    /\ withdrawals' = [withdrawals EXCEPT
                          ![id] = PatchedRow(@, status, adminNotes, date)]
    /\ UNCHANGED <<users, bankData, commissions>>

PatchVerdict(id, status) ==
    IF status \notin PatchStatuses THEN Reply(400, "Status inválido")
    ELSE IF id \notin DOMAIN withdrawals
    THEN Reply(404, "Solicitação de saque não encontrada")
    ELSE Updated

PatchWithdrawal(a, id, status, adminNotes, date) ==
    /\ UNCHANGED <<envVars, procs>>
    /\ IF AdminGate(a) # Passed THEN Refuse(AdminGate(a))
       ELSE IF PatchVerdict(id, status) # Updated
       THEN Refuse(PatchVerdict(id, status))
       ELSE /\ UpdateWithdrawal(id, status, adminNotes, date)
            /\ resp' = Updated
            /\ UNCHANGED <<shopVars, lgpdVars>>

----------------------------------------------------------------------------
(* user routes: PUT /user/bank-data *)

\* validate(bankDataSchema, req.body), for the fields the inputs vary
BankDataValid(input) ==
    /\ validateCPF(input.holderCpf)
    /\ input.accountType \in {"corrente", "poupanca"}
    /\ input.pixKeyType \in {"cpf", "email", "phone", "random", ABSENT}
    /\ (input.pixKey \notin {ABSENT, ""}) => input.pixKeyType # ABSENT

ValidationError == Reply(400, "Dados de entrada inválidos.")
BankSaved == Reply(200, "Dados bancários atualizados com sucesso")

\* upsert: `update` writes the fields the body carries, `create` leaves the
\* optional columns of absent fields null
UpsertedBankRow(u, data) ==
    IF u \in DOMAIN bankData
    THEN [f \in BankFields |-> IF data[f] # ABSENT THEN data[f] ELSE bankData[u][f]]
    ELSE [f \in BankFields |-> IF data[f] # ABSENT THEN data[f] ELSE NULL]

UpsertBankData(u, data) ==
    /\ bankData' = Put(bankData, u, UpsertedBankRow(u, data))
    /\ UNCHANGED <<users, commissions, withdrawals>>

PutBankData(u, input) ==
    /\ UNCHANGED <<envVars, procs>>
    /\ IF authenticate(u) # Passed THEN Refuse(authenticate(u))
       ELSE IF ~BankDataValid(input) THEN Refuse(ValidationError)
       ELSE /\ UpsertBankData(u, [input EXCEPT !.holderCpf = cleanCPF(@)])
            /\ resp' = BankSaved
            /\ UNCHANGED <<shopVars, lgpdVars>>

----------------------------------------------------------------------------
(* LGPD routes and LGPDService: erasure *)

ErasureSent == Reply(200, "Solicitação de exclusão enviada. Será analisada pela equipe em até 15 dias úteis.")
Approved == Reply(200, "Solicitação aprovada com sucesso")
Rejected == Reply(200, "Solicitação rejeitada com sucesso")
Duplicate == Reply(409, "Dados duplicados. Este registro já existe.")

DataRequestRow(u, type) ==
    [userId |-> u, type |-> type, status |-> "PENDING", adminId |-> NULL]

\* POST /lgpd/request/erasure
RequestErasure(u) ==
    /\ UNCHANGED <<envVars, procs>>
    /\ IF authenticate(u) # Passed THEN Refuse(authenticate(u))
       ELSE /\ dataRequests' = Append(dataRequests, DataRequestRow(u, "ERASURE"))
            /\ resp' = ErasureSent
            /\ UNCHANGED <<ledgerVars, shopVars, subscriptions, billingHistory,
                           addresses, userConsents, auditLogs>>

FiveYears == 5

\* LGPDService.canEraseUserData: "" when allowed, else the reason
canEraseUserData(u) ==
    LET activeSubscription ==
            u \in DOMAIN subscriptions /\ subscriptions[u].status = "ACTIVE"
        pendingWithdrawals ==
            {i \in DOMAIN withdrawals : /\ withdrawals[i].userId = u
                                        /\ withdrawals[i].status \in OpenStatuses}
        taxObligations ==
            {i \in DOMAIN billingHistory :
                /\ billingHistory[i].userId = u
                /\ billingHistory[i].createdAt >= now - FiveYears}
    IN  IF activeSubscription
        THEN "Usuário possui assinatura ativa. Cancele a assinatura antes de solicitar exclusão."
        ELSE IF pendingWithdrawals # {}
        THEN "Usuário possui solicitações de saque pendentes."
        ELSE IF taxObligations # {}
        THEN "Dados devem ser mantidos por 5 anos para fins fiscais conforme legislação brasileira."
        ELSE ""

\* `anonimizado_${userId}@example.com`
AnonymizedEmail(u) == << <<"anonimizado_", u>>, "example.com" >>

\* anonymizedData written over the row of user u
AnonymizedRow(u) ==
    [users[u] EXCEPT !.firstName = "ANONIMIZADO", !.lastName = "ANONIMIZADO",
                     !.email = AnonymizedEmail(u), !.cpf = CpfZero,
                     !.phone = NULL, !.birthDate = NULL,
                     !.isActive = FALSE, !.emailVerified = FALSE]

\* schema.prisma: email @unique, cpf @unique
UniqueViolation(u, row) ==
    \E o \in DOMAIN users \ {u} :
        users[o].email = row.email \/ users[o].cpf = row.cpf

\* variant: the four statements run outside a transaction, so that the
\* deletes take effect although the update of the user fails
anonymizeUserDataUnbatched(u) ==
    /\ users' = IF UniqueViolation(u, AnonymizedRow(u)) THEN users
                 ELSE [users EXCEPT ![u] = AnonymizedRow(u)]
    /\ addresses' = Remove(addresses, u)
    /\ bankData' = Remove(bankData, u)
    /\ userConsents' = {c \in userConsents : c[1] # u}

\* LGPDService.anonymizeUserData: the four statements of prisma.$transaction;
\* when the update of the user violates a unique constraint (P2002) the
\* transaction rolls back
anonymizeUserData(u) ==
    IF UniqueViolation(u, AnonymizedRow(u))
    THEN UNCHANGED <<users, addresses, bankData, userConsents>>
    ELSE /\ users' = [users EXCEPT ![u] = AnonymizedRow(u)]
         /\ addresses' = Remove(addresses, u)
         /\ bankData' = Remove(bankData, u)
         /\ userConsents' = {c \in userConsents : c[1] # u}

\* AuditService.logEvent: the try/catch keeps a failed write from the caller
logEventVerdict(auditOk) == Passed

AuditRow(u, adminId, eventType) ==
    [userId |-> u, adminId |-> adminId, eventType |-> eventType,
     entity |-> "user", entityId |-> u]

\* prisma.auditLog.create, which may fail
logEvent(row, auditOk) ==
    auditLogs' = IF auditOk THEN Append(auditLogs, row) ELSE auditLogs

\* LGPDService.processErasureRequest: createDataSubjectRequest adds row `id`,
\* then the exclusion check, the export, the anonymization, the status update
\* of row `id` and the audit event
processErasureRequest(u, adminId, id, exportOk, auditOk) ==
    IF canEraseUserData(u) # ""
    THEN /\ dataRequests' = [Append(dataRequests, DataRequestRow(u, "ERASURE"))
                                EXCEPT ![id].status = "REJECTED",
                                       ![id].adminId = adminId]
         /\ resp' = InternalError
         /\ UNCHANGED <<users, addresses, bankData, userConsents, auditLogs>>
    ELSE IF ~exportOk
    THEN /\ dataRequests' = Append(dataRequests, DataRequestRow(u, "ERASURE"))
         /\ resp' = InternalError
         /\ UNCHANGED <<users, addresses, bankData, userConsents, auditLogs>>
    ELSE IF UniqueViolation(u, AnonymizedRow(u))
    THEN /\ anonymizeUserData(u)
         /\ dataRequests' = Append(dataRequests, DataRequestRow(u, "ERASURE"))
         /\ resp' = Duplicate
         /\ UNCHANGED auditLogs
    ELSE /\ anonymizeUserData(u)
         /\ dataRequests' = [Append(dataRequests, DataRequestRow(u, "ERASURE"))
                                EXCEPT ![id].status = "COMPLETED",
                                       ![id].adminId = adminId]
         /\ logEvent(AuditRow(u, adminId, "USER_DEACTIVATED"), auditOk)
         /\ resp' = IF logEventVerdict(auditOk) # Passed
                    THEN logEventVerdict(auditOk) ELSE Approved

ProcessVerdict(id) ==
    IF id \notin DOMAIN dataRequests THEN Reply(404, "Solicitação não encontrada")
    ELSE IF dataRequests[id].status # "PENDING"
    THEN Reply(400, "Solicitação já foi processada")
    ELSE Passed

\* PATCH /lgpd/admin/requests/:id/process
ProcessDataRequest(a, id, action, exportOk, auditOk) ==
    /\ UNCHANGED <<envVars, procs>>
    /\ IF AdminGate(a) # Passed THEN Refuse(AdminGate(a))
       ELSE IF ProcessVerdict(id) # Passed THEN Refuse(ProcessVerdict(id))
       ELSE IF action = "approve" /\ dataRequests[id].type = "ERASURE"
       THEN /\ processErasureRequest(dataRequests[id].userId, a,
                                     Len(dataRequests) + 1, exportOk, auditOk)
            /\ UNCHANGED <<commissions, withdrawals, shopVars, subscriptions,
                           billingHistory>>
       ELSE IF action = "reject"
       THEN /\ dataRequests' = [dataRequests EXCEPT ![id].status = "REJECTED",
                                                    ![id].adminId = a]
            /\ resp' = Rejected
            /\ UNCHANGED <<ledgerVars, shopVars, subscriptions, billingHistory,
                           addresses, userConsents, auditLogs>>
       ELSE Refuse(Reply(400, "Ação inválida"))

----------------------------------------------------------------------------
(* Initial database *)

NoProcs == EmptyTable
CurrentYear == 2026

InitialBankData == Put(Put(EmptyTable, "u1", StoredBankA), "u2", StoredBankB)

SubscriptionRow(status) == [status |-> status, planId |-> "basic-plan"]
BillingRow(u, createdAt) == [userId |-> u, createdAt |-> createdAt]

\* u1 canceled long ago, u2 is a paying subscriber
InitialSubscriptions ==
    Put(Put(EmptyTable, "u1", SubscriptionRow("CANCELED")),
        "u2", SubscriptionRow("ACTIVE"))
InitialBilling == << BillingRow("u1", CurrentYear - 6), BillingRow("u2", CurrentYear) >>

\* seed.ts: the coupons.  Money of the shop is in centavos; an optional
\* Decimal column is <<>> when null; the dates are years.
CouponRow(code, type, value, minimumAmount, usageLimitPerUser) ==
    [code |-> code, type |-> type, value |-> value,
     minimumAmount |-> minimumAmount, maximumDiscount |-> <<>>,
     usageLimitPerUser |-> usageLimitPerUser, isActive |-> TRUE,
     startDate |-> CurrentYear, endDate |-> CurrentYear + 1]

SeedCoupons ==
    Put(Put(EmptyTable, "c1", CouponRow("BEMVINDO10", "PERCENTAGE", 10, <<>>, 1)),
        "c2", CouponRow("FRETEGRATIS", "FIXED_AMOUNT", 1590, <<10000>>, 1))

ProductRow(name, price, stock, trackStock, isActive) ==
    [name |-> name, price |-> price, stock |-> stock,
     trackStock |-> trackStock, isActive |-> isActive]

Catalogue ==
    Put(Put(EmptyTable, "prod-1", ProductRow("Kit Bem-Estar", 6000, 2, TRUE, TRUE)),
        "prod-2", ProductRow("Oleo Essencial", 3000, 0, FALSE, FALSE))


InitDatabase(adminRow) ==
    /\ users = InitialUsers(adminRow)
    /\ bankData = InitialBankData
    /\ commissions = Ledger
    /\ withdrawals = <<>>
    /\ coupons = SeedCoupons
    /\ userCoupons = EmptyTable
    /\ orders = <<>>
    /\ products = Catalogue
    /\ dataRequests = <<>>
    /\ subscriptions = InitialSubscriptions
    /\ billingHistory = InitialBilling
    /\ addresses = Put(EmptyTable, "u1", [city |-> "Curitiba"])
    /\ userConsents = {<<"u1", "MARKETING">>, <<"u2", "MARKETING">>}
    /\ auditLogs = <<>>
    /\ now = CurrentYear
    /\ outbox = {}
    /\ activityLogs = <<>>

AdminEnvs == {{}, {<<AdminEmail>>}}

----------------------------------------------------------------------------
(* Spec: the withdrawal workflow, one request at a time *)

AmountInputs == {Undefined, Num(0 - 5), Num(40), Num(50), Num(60), Num(120),
                 Str(60), Str(200)}
NoteInputs == {ABSENT, "conferido"}
StatusInputs == PatchStatuses \cup {"PROCESSING"}
PatchCallers == {"a1", "u1", "u3"}

Init ==
    /\ InitDatabase(SeedAdmin)
    /\ adminEmailsEnv \in AdminEnvs
    /\ nodeEnv = "production"
    /\ resp = NoResponse
    /\ procs = NoProcs

WithdrawStep ==
    \E u \in UserIds, amount \in AmountInputs :
        /\ Withdraw(u, amount)
        /\ Len(withdrawals') <= MaxWithdrawals

PatchStep ==
    \E a \in PatchCallers, id \in 1..(MaxWithdrawals + 1),
       status \in StatusInputs, date \in Dates :
        PatchWithdrawal(a, id, status, ABSENT, date)

Next == WithdrawStep \/ PatchStep

Spec == Init /\ [][Next]_vars

----------------------------------------------------------------------------
(* Claims on the withdrawal workflow *)

NewWithdrawals == DOMAIN withdrawals' \ DOMAIN withdrawals

\* C1: POST /commissions/withdraw never creates a withdrawal request whose
\* amount is greater than the sum of the requesting user's AVAILABLE
\* commissions at the moment the request is handled; a request for more
\* than that sum is rejected with 400.
C1_NeverAboveAvailable ==
    [][ /\ \A i \in NewWithdrawals :
              withdrawals'[i].amount <= AvailableSum(withdrawals'[i].userId)
        /\ \A u \in UserIds, amount \in AmountInputs :
              ( /\ Withdraw(u, amount)
                /\ authenticate(u) = Passed
                /\ amount.v > AvailableSum(u) )
              => (resp'.status = 400 /\ withdrawals' = withdrawals) ]_vars

\* C2: once a withdrawal request has status PAID no operation changes its
\* status again.
C2_PaidIsTerminal ==
    [][ \A i \in DOMAIN withdrawals :
            withdrawals[i].status = "PAID" => withdrawals'[i].status = "PAID" ]_vars

\* C3: with requests handled one at a time, every user has at most one
\* withdrawal request whose status is PENDING, APPROVED or PROCESSING.
C3_AtMostOneOpen ==
    \A u \in UserIds : Cardinality(ReadPendingWithdrawal(u)) <= 1

\* the conditions under which the contract accepts a withdraw request
Eligible(u, amount) ==
    /\ amount.kind # "undef"
    /\ amount.v >= MinWithdrawalDefault
    /\ amount.v <= AvailableSum(u)
    /\ u \in DOMAIN bankData
    /\ ReadPendingWithdrawal(u) = {}

\* C5: a withdraw request handled on its own is accepted (one new PENDING
\* row) if and only if the amount is at least the minimum, the amount does
\* not exceed the AVAILABLE balance, the user has a bank-data record and no
\* request in PENDING, APPROVED or PROCESSING; otherwise it is rejected with
\* status 400 and no withdrawal row is created or changed.
C5_AcceptedIffEligible ==
    [][ \A u \in UserIds, amount \in AmountInputs :
            (Withdraw(u, amount) /\ authenticate(u) = Passed)
            => IF Eligible(u, amount)
               THEN /\ Len(withdrawals') = Len(withdrawals) + 1
                    /\ withdrawals'[Len(withdrawals')].status = "PENDING"
                    /\ withdrawals'[Len(withdrawals')].userId = u
                    /\ withdrawals'[Len(withdrawals')].amount = amount.v
                    /\ resp'.status = 201
               ELSE /\ withdrawals' = withdrawals
                    /\ resp'.status = 400 ]_vars

----------------------------------------------------------------------------
(* SpecAdmin: who may change a withdrawal request, and what else changes *)

AdminAmountInputs == {Num(50), Str(200)}

InitAdmin ==
    /\ InitDatabase(SeedAdmin)
    /\ adminEmailsEnv \in AdminEnvs
    /\ nodeEnv = "production"
    /\ resp = NoResponse
    /\ procs = NoProcs

AdminWithdrawStep ==
    \E u \in UserIds, amount \in AdminAmountInputs :
        /\ Withdraw(u, amount)
        /\ Len(withdrawals') <= MaxAdminRows

AdminPatchStep ==
    \E a \in PatchCallers, id \in 1..MaxAdminRows,
       status \in PatchStatuses, notes \in NoteInputs, date \in Dates :
        PatchWithdrawal(a, id, status, notes, date)

AdminBankStep ==
    \E input \in {BankInputB, BankInputBad} : PutBankData("u1", input)

NextAdmin == AdminWithdrawStep \/ AdminPatchStep \/ AdminBankStep

SpecAdmin == InitAdmin /\ [][NextAdmin]_vars

IsPatch(a) ==
    \E id \in 1..MaxAdminRows, status \in PatchStatuses,
       notes \in NoteInputs, date \in Dates :
        PatchWithdrawal(a, id, status, notes, date)

\* C7: an existing withdrawal request is changed only by an administrator:
\* an authenticated user whose email is not in ADMIN_EMAILS (every user when
\* it is unset) is refused with 403 by the admin route and changes no
\* withdrawal request, and every step that changes an existing row is a
\* PATCH /admin/withdrawals/:id of a user in the allow-list.
C7_OnlyAdminChanges ==
    [][ /\ \A a \in PatchCallers :
              ( /\ authenticate(a) = Passed
                /\ users[a].email \notin adminEmails
                /\ IsPatch(a) )
              => (resp'.status = 403 /\ withdrawals' = withdrawals)
        /\ (\E i \in DOMAIN withdrawals : withdrawals'[i] # withdrawals[i])
              => \E a \in PatchCallers :
                    /\ authenticate(a) = Passed
                    /\ users[a].email \in adminEmails
                    /\ IsPatch(a) ]_vars

\* a non-admin has just been refused while a withdrawal request exists
C7_Witness == resp.status = 403 /\ withdrawals # <<>>

\* a withdraw request was accepted or an admin status update was applied
IsWithdrawalOperation ==
    withdrawals' # withdrawals \/ resp' \in {Created, Updated}

\* C8: accepting a withdraw request and every admin status update of a
\* withdrawal leave every commission row unchanged, so the AVAILABLE balance
\* of every user is the same before and after.
C8_CommissionsUntouched ==
    [][ IsWithdrawalOperation
        => /\ commissions' = commissions
           /\ \A u \in UserIds : AvailableSum(u)' = AvailableSum(u) ]_vars

\* a request of u1 was accepted and paid, and the balance of u1 is still 100
C8_Witness ==
    /\ \E i \in DOMAIN withdrawals :
          withdrawals[i].userId = "u1" /\ withdrawals[i].status = "PAID"
    /\ AvailableSum("u1") = 100

----------------------------------------------------------------------------
(* SpecBank: bank data, its copy in withdrawal requests, and erasure *)

BankAmountInputs == {Num(50)}
BankActors == {"u1", "u2"}
BankPatchStatuses == {"PAID", "REJECTED"}
ProcessActions == {"approve", "reject"}

InitBank ==
    /\ \E adminRow \in {SeedAdmin, RegisteredAdmin} : InitDatabase(adminRow)
    /\ adminEmailsEnv = {<<AdminEmail>>}
    /\ nodeEnv = "production"
    /\ resp = NoResponse
    /\ procs = NoProcs

BankWithdrawStep ==
    \E u \in {"u1"}, amount \in BankAmountInputs :
        /\ Withdraw(u, amount)
        /\ Len(withdrawals') <= MaxBankRows

BankPatchStep ==
    \E id \in 1..MaxBankRows, status \in BankPatchStatuses, date \in Dates :
        PatchWithdrawal("a1", id, status, ABSENT, date)

BankPutStep ==
    \E u \in {"u1"}, input \in {BankInputA, BankInputB} : PutBankData(u, input)

BankErasureStep ==
    \E u \in BankActors :
        /\ RequestErasure(u)
        /\ Len(dataRequests') <= MaxDataRequests

BankProcessStep ==
    \E id \in 1..MaxDataRequests, action \in ProcessActions,
       exportOk \in BOOLEAN, auditOk \in BOOLEAN :
        /\ ProcessDataRequest("a1", id, action, exportOk, auditOk)
        /\ Len(dataRequests') <= MaxDataRequests

NextBank == BankWithdrawStep \/ BankPatchStep \/ BankPutStep
            \/ BankErasureStep \/ BankProcessStep

SpecBank == InitBank /\ [][NextBank]_vars

\* C6: the bank details stored in a withdrawal request equal the user's
\* bank-data record at the time the request was accepted, and no later
\* operation changes the bank details stored in that request.
C6_SnapshotFrozen ==
    [][ /\ \A i \in NewWithdrawals : \A f \in BankFields :
              withdrawals'[i].bankData[f] = bankData[withdrawals'[i].userId][f]
        /\ \A i \in DOMAIN withdrawals :
              withdrawals'[i].bankData = withdrawals[i].bankData ]_vars

\* a request keeps its bank details after the user changed the bank-data
\* record, and another after anonymization deleted the record
C6_Witness ==
    \E i \in DOMAIN withdrawals :
        /\ withdrawals[i].userId \notin DOMAIN bankData
        /\ ~users[withdrawals[i].userId].isActive
        /\ withdrawals[i].bankData.pixKey # NULL

\* C12: an erasure request created by a user starts PENDING and leaves
\* PENDING only by an admin decision; when the admin approves it and the
\* erasure is carried out, that request becomes COMPLETED; when the admin
\* rejects it, that request becomes REJECTED.
C12_ErasureLifecycle ==
    [][ /\ resp' = ErasureSent =>
              dataRequests' = Append(dataRequests,
                  [dataRequests'[Len(dataRequests')] EXCEPT
                      !.type = "ERASURE", !.status = "PENDING"])
        /\ \A id \in DOMAIN dataRequests :
              (dataRequests[id].status = "PENDING"
                  /\ dataRequests'[id].status # "PENDING")
              => resp' \in {Approved, Rejected}
        /\ \A id \in DOMAIN dataRequests, auditOk \in BOOLEAN :
              (ProcessDataRequest("a1", id, "approve", TRUE, auditOk)
                  /\ resp' = Approved)
              => dataRequests'[id].status = "COMPLETED"
        /\ \A id \in DOMAIN dataRequests :
              (ProcessDataRequest("a1", id, "reject", TRUE, TRUE)
                  /\ resp' = Rejected)
              => dataRequests'[id].status = "REJECTED" ]_vars

\* the rows of user u that the anonymization deletes
PersonalRows(u, a, b, c) ==
    [addresses |-> IF u \in DOMAIN a THEN {a[u]} ELSE {},
     bankData |-> IF u \in DOMAIN b THEN {b[u]} ELSE {},
     userConsents |-> {x \in c : x[1] = u}]
NoPersonalRows == [addresses |-> {}, bankData |-> {}, userConsents |-> {}]

\* C14: anonymization is all-or-nothing: a user row is anonymized exactly
\* with the deletion of the user's address, bank-data and consent rows, no
\* state has the one without the other, and when a statement of the
\* transaction fails none of the four takes effect.
C14_AllOrNothing ==
    /\ [](\A u \in DOMAIN users :
            users[u] = AnonymizedRow(u)
            => PersonalRows(u, addresses, bankData, userConsents) = NoPersonalRows)
    /\ [][ \A u \in DOMAIN users :
             (\/ users'[u] # users[u]
              \/ u \in DOMAIN addresses \ DOMAIN addresses'
              \/ u \in DOMAIN bankData \ DOMAIN bankData'
              \/ \E x \in userConsents \ userConsents' : x[1] = u)
             => /\ users'[u] = AnonymizedRow(u)
                /\ PersonalRows(u, addresses', bankData', userConsents')
                      = NoPersonalRows ]_vars

\* the update of u1 inside the transaction failed on the unique cpf: the
\* approval was answered 409 and u1 keeps the name and all personal rows
C14_Witness ==
    /\ resp = Duplicate
    /\ Len(dataRequests) = 2
    /\ users["u1"] # AnonymizedRow("u1")
    /\ PersonalRows("u1", addresses, bankData, userConsents).bankData # {}
    /\ PersonalRows("u1", addresses, bankData, userConsents).addresses # {}
    /\ PersonalRows("u1", addresses, bankData, userConsents).userConsents # {}

\* C15: for every user whose erasure is approved and who passes the
\* exclusion checks, whatever users were anonymized or created before, the
\* anonymization succeeds: the row stays under the same id with firstName and
\* lastName 'ANONIMIZADO', cpf '00000000000', phone and birthDate null, and
\* the orders and commissions still reference that id.
C15_AnonymizationSucceeds ==
    [][ \A id \in DOMAIN dataRequests, auditOk \in BOOLEAN :
          (/\ ProcessDataRequest("a1", id, "approve", TRUE, auditOk)
           /\ AdminGate("a1") = Passed
           /\ ProcessVerdict(id) = Passed
           /\ dataRequests[id].type = "ERASURE"
           /\ canEraseUserData(dataRequests[id].userId) = "")
          => /\ dataRequests[id].userId \in DOMAIN users'
             /\ users'[dataRequests[id].userId].firstName = "ANONIMIZADO"
             /\ users'[dataRequests[id].userId].lastName = "ANONIMIZADO"
             /\ users'[dataRequests[id].userId].cpf = CpfZero
             /\ users'[dataRequests[id].userId].phone = NULL
             /\ users'[dataRequests[id].userId].birthDate = NULL
             /\ commissions' = commissions
             /\ orders' = orders ]_vars

----------------------------------------------------------------------------
(* In-flight requests: procs[p] is the local state of request p.  Every    *)
(* await of a handler is a point where another request may run.            *)

\* the handler throws or responds: the request is answered
Answer(p, r) ==
    /\ procs' = [procs EXCEPT ![p].pc = "done", ![p].reply = r]
    /\ resp' = r

----------------------------------------------------------------------------
(* SpecRace: POST /commissions/withdraw, one step per awaited query *)

MaxRequests == 2        \* concurrent withdraw requests in SpecRace

RaceRequests == 1..MaxRequests
RaceUsers == {"u1", "a1"}
RaceAmounts == {Num(50), Num(60), Num(120)}

\* bd: the bank_data row the request has read, as a set of 0 or 1 rows
WithdrawProc(pc, u, amount, bd, reply) ==
    [pc |-> pc, u |-> u, amount |-> amount, bd |-> bd, reply |-> reply]
IdleWithdraw == WithdrawProc("idle", "u1", Undefined, {}, NoResponse)

\* a check of the handler: it throws, or the handler goes on to its next await
RaceCheck(p, r, pc, bd) ==
    /\ IF r # Passed THEN Answer(p, r)
       ELSE /\ procs' = [procs EXCEPT ![p].pc = pc, ![p].bd = bd]
            /\ UNCHANGED resp
    /\ UNCHANGED <<ledgerVars, shopVars, lgpdVars, envVars>>

\* authenticate, then the checks of the amount, up to the first query
RaceReceive(p, u, amount) ==
    /\ procs[p].pc = "idle"
    /\ LET r == IF authenticate(u) # Passed THEN authenticate(u)
                ELSE CheckAmount(amount)
       IN  IF r # Passed
           THEN /\ procs' = [procs EXCEPT
                               ![p] = WithdrawProc("done", u, amount, {}, r)]
                /\ resp' = r
           ELSE /\ procs' = [procs EXCEPT
                               ![p] = WithdrawProc("balance", u, amount, {},
                                                   NoResponse)]
                /\ UNCHANGED resp
    /\ UNCHANGED <<ledgerVars, shopVars, lgpdVars, envVars>>

\* await prisma.commission.aggregate(...), then the balance check
RaceBalance(p) ==
    /\ procs[p].pc = "balance"
    /\ RaceCheck(p, CheckBalance(procs[p].amount, ReadBalance(procs[p].u)),
                 "bank", {})

\* await prisma.bankData.findUnique(...), then the bank data check
RaceBankData(p) ==
    /\ procs[p].pc = "bank"
    /\ RaceCheck(p, CheckBankData(ReadBankData(procs[p].u)),
                 "pending", ReadBankData(procs[p].u))

\* await prisma.withdrawalRequest.findFirst(...), then the pending check
RacePending(p) ==
    /\ procs[p].pc = "pending"
    /\ RaceCheck(p, CheckPending(ReadPendingWithdrawal(procs[p].u)),
                 "create", procs[p].bd)

\* variant: the insert looks for an open request again and refuses
RaceCreateGuarded(p) ==
    /\ procs[p].pc = "create"
    /\ IF ReadPendingWithdrawal(procs[p].u) # {}
       THEN /\ Answer(p, CheckPending(ReadPendingWithdrawal(procs[p].u)))
            /\ UNCHANGED ledgerVars
       ELSE /\ CreateWithdrawal(procs[p].u, procs[p].amount,
                                CHOOSE bd \in procs[p].bd : TRUE)
            /\ Answer(p, Created)
    /\ UNCHANGED <<shopVars, lgpdVars, envVars>>

\* await prisma.withdrawalRequest.create(...) with the bank data read before,
\* then the 201 response
RaceCreate(p) ==
    /\ procs[p].pc = "create"
    /\ CreateWithdrawal(procs[p].u, procs[p].amount,
                        CHOOSE bd \in procs[p].bd : TRUE)
    /\ Answer(p, Created)
    /\ UNCHANGED <<shopVars, lgpdVars, envVars>>

InitRace ==
    /\ InitDatabase(SeedAdmin)
    /\ adminEmailsEnv = {<<AdminEmail>>}
    /\ nodeEnv = "production"
    /\ resp = NoResponse
    /\ procs = [p \in RaceRequests |-> IdleWithdraw]

RaceReceiveStep ==
    \E p \in RaceRequests, u \in RaceUsers, amount \in RaceAmounts :
        RaceReceive(p, u, amount)
RaceBalanceStep == \E p \in RaceRequests : RaceBalance(p)
RaceBankDataStep == \E p \in RaceRequests : RaceBankData(p)
RacePendingStep == \E p \in RaceRequests : RacePending(p)
RaceCreateStep == \E p \in RaceRequests : RaceCreate(p)

NextRace ==
    \/ RaceReceiveStep
    \/ RaceBalanceStep
    \/ RaceBankDataStep
    \/ RacePendingStep
    \/ RaceCreateStep

SpecRace == InitRace /\ [][NextRace]_vars

\* C4: a withdraw request that has passed its balance check and its
\* pending-request check is accepted whatever happened since: its insert
\* looks at nothing again, answers 201 and adds a PENDING row of its user
\* and amount.  Two concurrent requests of one user that both passed the
\* checks before either inserted are therefore both accepted.
C4_InsertAfterChecks ==
    [][ \A p \in RaceRequests :
            (procs[p].pc = "create" /\ procs'[p].pc # "create")
            => /\ procs'[p].reply = Created
               /\ Len(withdrawals') = Len(withdrawals) + 1
               /\ LET row == withdrawals'[Len(withdrawals')]
                  IN  /\ row.userId = procs[p].u
                      /\ row.amount = procs[p].amount.v
                      /\ row.status = "PENDING" ]_vars

\* two requests of one user were both accepted, and the two PENDING rows of
\* that user together exceed the AVAILABLE balance of the user
C4_Witness ==
    \E p, q \in RaceRequests :
        /\ p # q
        /\ procs[p].u = procs[q].u
        /\ procs[p].reply = Created /\ procs[q].reply = Created
        /\ LET rows == {i \in DOMAIN withdrawals :
                           /\ withdrawals[i].userId = procs[p].u
                           /\ withdrawals[i].status = "PENDING"}
           IN  /\ Cardinality(rows) = 2
               /\ SumOver(withdrawals, rows) > AvailableSum(procs[p].u)

----------------------------------------------------------------------------
(* orders routes: POST /orders, one step per awaited query *)

MaxOrderRequests == 2   \* concurrent order creations in SpecOrders

Item(productId, quantity) == [productId |-> productId, quantity |-> quantity]

OrderBody(items, shippingAddress, paymentMethod, couponCode) ==
    [items |-> items, shippingAddress |-> shippingAddress,
     paymentMethod |-> paymentMethod, couponCode |-> couponCode]

CheckOrderBody(body) ==
    IF body.items = <<>>
    THEN Reply(400, "Itens do pedido são obrigatórios")
    ELSE IF body.shippingAddress = ABSENT
    THEN Reply(400, "Endereço de entrega é obrigatório")
    ELSE IF body.paymentMethod = ABSENT
    THEN Reply(400, "Método de pagamento é obrigatório")
    ELSE Passed

\* `Produto ${item.productId} não encontrado`
ProductNotFound(id) ==
    Reply(404, CASE id = "prod-1" -> "Produto prod-1 não encontrado"
                 [] id = "prod-2" -> "Produto prod-2 não encontrado"
                 [] OTHER -> "Produto não encontrado")

\* `Estoque insuficiente para ${product.name}`
InsufficientStock(name) ==
    Reply(400, CASE name = "Kit Bem-Estar" -> "Estoque insuficiente para Kit Bem-Estar"
                 [] OTHER -> "Estoque insuficiente")

\* prisma.product.findFirst({where: {id, isActive: true}}) and the stock check
CheckItem(item) ==
    IF \/ item.productId \notin DOMAIN products
       \/ ~products[item.productId].isActive
    THEN ProductNotFound(item.productId)
    ELSE IF /\ products[item.productId].trackStock
            /\ products[item.productId].stock < item.quantity
    THEN InsufficientStock(products[item.productId].name)
    ELSE Passed

RECURSIVE CheckItems(_, _)
\* the loop over the items throws at the first item that fails
CheckItems(items, i) ==
    IF i > Len(items) THEN Passed
    ELSE IF CheckItem(items[i]) # Passed THEN CheckItem(items[i])
    ELSE CheckItems(items, i + 1)

RECURSIVE Subtotal(_, _)
\* subtotal += Number(product.price) * item.quantity
Subtotal(items, n) ==
    IF n = 0 THEN 0
    ELSE Subtotal(items, n - 1)
         + products[items[n].productId].price * items[n].quantity

\* if (couponCode)
HasCoupon(body) == body.couponCode # ABSENT /\ body.couponCode # ""

\* prisma.coupon.findFirst({where: {code, isActive, startDate, endDate}})
FindCoupon(code) == {c \in DOMAIN coupons :
                        /\ coupons[c].code = code
                        /\ coupons[c].isActive
                        /\ coupons[c].startDate <= now
                        /\ coupons[c].endDate >= now}

\* prisma.userCoupon.findUnique({where: {userId_couponId}})
ReadUsage(u, c) == IF <<u, c>> \in DOMAIN userCoupons
                   THEN {userCoupons[<<u, c>>]} ELSE {}

\* coupon.usageLimitPerUser || 1
UsageLimit(c) == IF coupons[c].usageLimitPerUser = 0 THEN 1
                 ELSE coupons[c].usageLimitPerUser

CheckUsage(found, c) ==
    IF found # {} /\ (CHOOSE n \in found : TRUE) >= UsageLimit(c)
    THEN Reply(400, "Limite de uso do cupom excedido")
    ELSE Passed

Discount(c, subtotal) ==
    IF coupons[c].type = "PERCENTAGE"
    THEN LET discount == (subtotal * coupons[c].value) \div 100
         IN  IF /\ coupons[c].maximumDiscount # <<>>
                /\ discount > coupons[c].maximumDiscount[1]
             THEN coupons[c].maximumDiscount[1]
             ELSE discount
    ELSE coupons[c].value

\* `Valor mínimo para usar o cupom é ${coupon.minimumAmount}`
CheckMinimum(c, subtotal) ==
    IF /\ coupons[c].minimumAmount # <<>>
       /\ subtotal < coupons[c].minimumAmount[1]
    THEN Reply(400, "Valor mínimo para usar o cupom é 100")
    ELSE Passed

OrderRow(u, body, subtotal, discount) ==
    [userId |-> u, subtotal |-> subtotal, shippingCost |-> 0,
     discount |-> discount, total |-> subtotal + 0 - discount,
     status |-> "PENDING", paymentStatus |-> "PENDING",
     paymentMethod |-> body.paymentMethod,
     shippingAddress |-> body.shippingAddress,
     couponCode |-> IF body.couponCode = ABSENT THEN NULL ELSE body.couponCode,
     items |-> body.items]

OrderCreated == Reply(201, "Pedido criado com sucesso")

\* coupon: the coupon the request has found, as a set of 0 or 1 ids
OrderProc(pc, u, body, subtotal, coupon, discount, reply) ==
    [pc |-> pc, u |-> u, body |-> body, subtotal |-> subtotal,
     coupon |-> coupon, discount |-> discount, reply |-> reply]
IdleOrder == OrderProc("idle", "u1", OrderBody(<<>>, ABSENT, ABSENT, ABSENT),
                       0, {}, 0, NoResponse)

\* authenticate, the checks of the body and the loop over the items
OrderReceive(p, u, body) ==
    /\ procs[p].pc = "idle"
    /\ LET r == IF authenticate(u) # Passed THEN authenticate(u)
                ELSE IF CheckOrderBody(body) # Passed THEN CheckOrderBody(body)
                ELSE CheckItems(body.items, 1)
       IN  IF r # Passed
           THEN /\ procs' = [procs EXCEPT
                               ![p] = OrderProc("done", u, body, 0, {}, 0, r)]
                /\ resp' = r
           ELSE /\ procs' = [procs EXCEPT
                               ![p] = OrderProc(IF HasCoupon(body) THEN "coupon"
                                                ELSE "create",
                                                u, body,
                                                Subtotal(body.items, Len(body.items)),
                                                {}, 0, NoResponse)]
                /\ UNCHANGED resp
    /\ UNCHANGED <<ledgerVars, shopVars, lgpdVars, envVars>>

\* await prisma.coupon.findFirst(...)
OrderCoupon(p) ==
    /\ procs[p].pc = "coupon"
    /\ IF FindCoupon(procs[p].body.couponCode) = {}
       THEN Answer(p, Reply(400, "Cupom inválido ou expirado"))
       ELSE /\ procs' = [procs EXCEPT
                           ![p].pc = "usage",
                           ![p].coupon = FindCoupon(procs[p].body.couponCode)]
            /\ UNCHANGED resp
    /\ UNCHANGED <<ledgerVars, shopVars, lgpdVars, envVars>>

\* await prisma.userCoupon.findUnique(...), then the limit check, the
\* discount and the minimum amount check
OrderUsage(p) ==
    /\ procs[p].pc = "usage"
    /\ LET c == CHOOSE id \in procs[p].coupon : TRUE
           r == IF CheckUsage(ReadUsage(procs[p].u, c), c) # Passed
                THEN CheckUsage(ReadUsage(procs[p].u, c), c)
                ELSE CheckMinimum(c, procs[p].subtotal)
       IN  IF r # Passed THEN Answer(p, r)
           ELSE /\ procs' = [procs EXCEPT
                               ![p].pc = "create",
                               ![p].discount = Discount(c, procs[p].subtotal)]
                /\ UNCHANGED resp
    /\ UNCHANGED <<ledgerVars, shopVars, lgpdVars, envVars>>

\* await prisma.order.create(...); without a coupon the 201 response follows
OrderCreate(p) ==
    /\ procs[p].pc = "create"
    /\ orders' = Append(orders, OrderRow(procs[p].u, procs[p].body,
                                         procs[p].subtotal, procs[p].discount))
    /\ IF HasCoupon(procs[p].body)
       THEN procs' = [procs EXCEPT ![p].pc = "upsert"] /\ UNCHANGED resp
       ELSE Answer(p, OrderCreated)
    /\ UNCHANGED <<ledgerVars, coupons, userCoupons, products, lgpdVars, envVars>>

\* prisma.coupon.findUnique({where: {code}}): code is @unique
CouponByCode(code) == CHOOSE c \in DOMAIN coupons : coupons[c].code = code

\* await prisma.userCoupon.upsert(...): increment, or create with 1; then
\* the 201 response
OrderUpsert(p) ==
    /\ procs[p].pc = "upsert"
    /\ LET key == <<procs[p].u, CouponByCode(procs[p].body.couponCode)>>
       IN  userCoupons' = Put(userCoupons, key,
                              IF key \in DOMAIN userCoupons
                              THEN userCoupons[key] + 1 ELSE 1)
    /\ Answer(p, OrderCreated)
    /\ UNCHANGED <<ledgerVars, coupons, orders, products, lgpdVars, envVars>>

----------------------------------------------------------------------------
(* SpecOrders: concurrent order creations *)

OrderRequests == 1..MaxOrderRequests
OrderUsers == {"u1", "u3"}
Cart(n) == << Item("prod-1", n) >>
OrderBodies ==
    { OrderBody(Cart(1), "Rua das Flores, 10", "pix", "BEMVINDO10"),
      OrderBody(Cart(2), "Rua das Flores, 10", "pix", "FRETEGRATIS"),
      OrderBody(Cart(1), "Rua das Flores, 10", "pix", "FRETEGRATIS"),
      OrderBody(Cart(1), "Rua das Flores, 10", "pix", "NATAL"),
      OrderBody(Cart(1), "Rua das Flores, 10", "pix", ABSENT),
      OrderBody(Cart(3), "Rua das Flores, 10", "pix", ABSENT),
      OrderBody(<< Item("prod-1", 1), Item("prod-2", 1) >>,
                "Rua das Flores, 10", "pix", ABSENT),
      OrderBody(<<>>, "Rua das Flores, 10", "pix", ABSENT),
      OrderBody(Cart(1), ABSENT, "pix", ABSENT),
      OrderBody(Cart(1), "Rua das Flores, 10", ABSENT, ABSENT) }

InitOrders ==
    /\ InitDatabase(SeedAdmin)
    /\ adminEmailsEnv = {<<AdminEmail>>}
    /\ nodeEnv = "production"
    /\ resp = NoResponse
    /\ procs = [p \in OrderRequests |-> IdleOrder]

OrderReceiveStep ==
    \E p \in OrderRequests, u \in OrderUsers, body \in OrderBodies :
        OrderReceive(p, u, body)
OrderCouponStep == \E p \in OrderRequests : OrderCoupon(p)
OrderUsageStep == \E p \in OrderRequests : OrderUsage(p)
OrderCreateStep == \E p \in OrderRequests : OrderCreate(p)
OrderUpsertStep == \E p \in OrderRequests : OrderUpsert(p)

NextOrders ==
    \/ OrderReceiveStep
    \/ OrderCouponStep
    \/ OrderUsageStep
    \/ OrderCreateStep
    \/ OrderUpsertStep

SpecOrders == InitOrders /\ [][NextOrders]_vars

\* C9: in every reachable state, concurrent order creations of one user with
\* one coupon included, the usageCount of every (user, coupon) pair is at
\* most the usageLimitPerUser of the coupon.
C9_UsageWithinLimit ==
    \A key \in DOMAIN userCoupons :
        userCoupons[key] <= coupons[key[2]].usageLimitPerUser

----------------------------------------------------------------------------
(* auth routes: POST /auth/register *)

ToUpperChar(c) ==
    CASE c = "a" -> "A" [] c = "b" -> "B" [] c = "c" -> "C" [] c = "d" -> "D"
      [] c = "e" -> "E" [] c = "f" -> "F" [] c = "z" -> "Z" [] OTHER -> c

\* String.prototype.toUpperCase
ToUpperCase(s) == [i \in DOMAIN s |-> ToUpperChar(s[i])]

\* referralCode: absent is {}, present is {the string}
RegisterBody(email, cpf, birthYear, referralCode) ==
    [email |-> email, cpf |-> cpf, firstName |-> "Nova", lastName |-> "Silva",
     phone |-> "11999990000", birthYear |-> birthYear,
     referralCode |-> referralCode]

\* registerSchema: the cpf passes validateCPF and the birth date is not
\* after now; the other fields of the bodies of the model are well formed
RegisterValid(body) == validateCPF(body.cpf) /\ body.birthYear <= now

\* helpers.ts calculateAge, for a birthday on the first of January
calculateAge(birthYear) == now - birthYear
isMinimumAge(birthYear) == calculateAge(birthYear) >= 18

\* prisma.user.findFirst({where: {OR: [{email}, {cpf}]}})
ExistingUsers(email, cpf) == {id \in DOMAIN users :
                                users[id].email = email \/ users[id].cpf = cpf}

\* the 409 the handler throws for the row findFirst returned
ExistingVerdict(row, email) ==
    IF row.email = email THEN Reply(409, "Este email já está cadastrado")
    ELSE Reply(409, "Este CPF já está cadastrado")

\* if (validatedData.referralCode)
HasReferralCode(body) == body.referralCode # {} /\ body.referralCode # {<<>>}

\* variant: the lookup takes the code as it was sent
ReferrerOfExact(code) == {id \in DOMAIN users : users[id].referralCode = code}

\* prisma.user.findUnique({where: {referralCode: code.toUpperCase()}})
ReferrerOf(code) == {id \in DOMAIN users :
                        users[id].referralCode = ToUpperCase(code)}

\* the codes crypto.randomBytes may yield
CodePool == {Code("E", "5"), Code("F", "6"), Code("B", "2")}

\* the loop draws codes until one is free
FreeCodes == {code \in CodePool :
                 \A id \in DOMAIN users : users[id].referralCode # code}

NewUserId == CHOOSE id \in NewIds : id \notin DOMAIN users

\* prisma.user.create: emailVerified and isActive take the schema defaults
NewUserRow(body, code, ref) ==
    [email |-> body.email, cpf |-> cleanCPF(body.cpf),
     firstName |-> body.firstName, lastName |-> body.lastName,
     phone |-> body.phone, birthDate |-> "1990-01-01",
     isActive |-> TRUE, emailVerified |-> FALSE,
     referralCode |-> code, referredById |-> ref]

Registered == Reply(201, "Usuário cadastrado com sucesso! Verifique seu email.")

RegisterProc(pc, body, reply) == [pc |-> pc, body |-> body, reply |-> reply]

\* the request arrives
RegisterReceive(body) ==
    /\ procs[1].pc # "received"
    /\ procs' = [procs EXCEPT ![1] = RegisterProc("received", body, NoResponse)]
    /\ UNCHANGED <<resp, ledgerVars, shopVars, lgpdVars, envVars>>

\* the request is refused before any write
RegisterRefuse(r) ==
    /\ Answer(1, r)
    /\ UNCHANGED users
    /\ UNCHANGED outbox

\* services/emailService.ts sendEmail: the transport delivers the mail, or
\* sendEmail throws Error('Falha ao enviar email')
sendEmail(to, kind, emailOk) ==
    outbox' = IF emailOk THEN outbox \cup {<<to, kind>>} ELSE outbox
sendEmailVerdict(emailOk) == IF emailOk THEN Passed ELSE InternalError

\* variant: sendWelcomeEmail is awaited without the try/catch
WelcomeEmailUncaught(emailOk) == sendEmailVerdict(emailOk)

\* register: try { await sendWelcomeEmail(...) } catch { console.error }
WelcomeEmailVerdict(emailOk) == Passed

\* the handler, to completion; code is the referral code the loop ends with
\* and emailOk tells whether sendWelcomeEmail succeeded
Register(code, emailOk) ==
    /\ procs[1].pc = "received"
    /\ LET body == procs[1].body
           codes == body.referralCode
       IN  IF ~RegisterValid(body) THEN RegisterRefuse(ValidationError)
           ELSE IF ~isMinimumAge(body.birthYear)
           THEN RegisterRefuse(Reply(400,
                    "Você deve ter pelo menos 18 anos para se cadastrar"))
           ELSE IF ExistingUsers(body.email, cleanCPF(body.cpf)) # {}
           THEN \E id \in ExistingUsers(body.email, cleanCPF(body.cpf)) :
                    RegisterRefuse(ExistingVerdict(users[id], body.email))
           ELSE /\ code \in FreeCodes
                /\ IF HasReferralCode(body)
                      /\ ReferrerOf(CHOOSE c \in codes : TRUE) = {}
                   THEN RegisterRefuse(Reply(400, "Código de indicação inválido"))
                   ELSE /\ users' = Put(users, NewUserId,
                               NewUserRow(body, code,
                                   IF HasReferralCode(body)
                                   THEN CHOOSE id \in
                                          ReferrerOf(CHOOSE c \in codes : TRUE) : TRUE
                                   ELSE NULL))
                        /\ sendEmail(body.email, "welcome", emailOk)
                        /\ Answer(1, IF WelcomeEmailVerdict(emailOk) # Passed
                                     THEN WelcomeEmailVerdict(emailOk)
                                     ELSE Registered)
    /\ UNCHANGED <<bankData, commissions, withdrawals, shopVars, lgpdVars,
                   settingVars>>

----------------------------------------------------------------------------
(* SpecRegister: registrations, one at a time *)

RegisterEmails == {Email("bia", "example.com"), Email("caio", "example.com"),
                   Email("maria", "example.com")}
RegisterCpfs == {Cpf5, Cpf6, Cpf1, CpfBad}
BirthYears == {1990, 2010}
ReferralInputs == {{}, {<<>>}, {<<"b", "2">>}, {Code("C", "3")}, {<<"z", "9">>}}

InitRegister ==
    /\ InitDatabase(SeedAdmin)
    /\ adminEmailsEnv = {<<AdminEmail>>}
    /\ nodeEnv = "production"
    /\ resp = NoResponse
    /\ procs = [p \in {1} |->
                  RegisterProc("idle", RegisterBody(Email("bia", "example.com"),
                                                    Cpf5, 1990, {}),
                               NoResponse)]

RegisterReceiveStep ==
    \E email \in RegisterEmails, cpf \in RegisterCpfs,
       birthYear \in BirthYears, referralCode \in ReferralInputs :
        RegisterReceive(RegisterBody(email, cpf, birthYear, referralCode))

\* the mail transport works here; SpecAccount, SpecAuth and SpecSignup let it fail
RegisterStep == \E code \in CodePool : Register(code, TRUE)

NextRegister == RegisterReceiveStep \/ RegisterStep

SpecRegister == InitRegister /\ [][NextRegister]_vars

\* the registration just handled, and what it found
Handled == procs[1].pc = "received" /\ procs'[1].pc = "done"
SentCode == CHOOSE c \in procs[1].body.referralCode : TRUE
CodeOwners == {id \in DOMAIN users :
                  users[id].referralCode = ToUpperCase(SentCode)}
ReachesReferral ==
    /\ RegisterValid(procs[1].body)
    /\ isMinimumAge(procs[1].body.birthYear)
    /\ ExistingUsers(procs[1].body.email, cleanCPF(procs[1].body.cpf)) = {}
CreatedUsers == DOMAIN users' \ DOMAIN users

\* C10: at registration, a non-empty referral code that, upper-cased, is the
\* referral code of no user gets the registration rejected and no user row
\* created, with 400 'Código de indicação inválido' when the body is valid,
\* of age and of a new email and CPF (a check that comes first answers
\* otherwise); a code that matches makes that registration create one user
\* whose referredById is the id of the owner of the code; an absent or empty
\* code makes it create one user whose referredById is null.
C10_ReferralResolution ==
    [][ Handled =>
          IF HasReferralCode(procs[1].body) /\ CodeOwners = {}
          THEN /\ users' = users
               /\ resp'.status \in {400, 409}
               /\ ReachesReferral
                     => resp' = Reply(400, "Código de indicação inválido")
          ELSE /\ ReachesReferral => (resp' = Registered /\ CreatedUsers # {})
               /\ Cardinality(CreatedUsers) <= 1
               /\ \A id \in CreatedUsers :
                     IF HasReferralCode(procs[1].body)
                     THEN users'[id].referredById \in CodeOwners
                     ELSE users'[id].referredById = NULL ]_vars

\* a user registered with the code b2 of Maria (u1), sent in lower case, and
\* a registration with an unknown code has just been refused with 400
C10_Witness ==
    /\ \E id \in DOMAIN users \ UserIds : users[id].referredById = "u1"
    /\ procs[1].pc = "done"
    /\ procs[1].body.referralCode = {<<"z", "9">>}
    /\ resp = Reply(400, "Código de indicação inválido")

----------------------------------------------------------------------------
(* SpecErasure: the awaits of PATCH /lgpd/admin/requests/:id/process run as
   separate steps, interleaved with the requests of the user *)

\* the admin's request in flight: the approved row `id`, its user `u`, the
\* row `row` created by processErasureRequest
ErasureProc(pc, id, u, row) == [pc |-> pc, id |-> id, u |-> u, row |-> row]
IdleErasure == ErasureProc("idle", 0, "", 0)

\* prisma.dataSubjectRequest.findUnique and the checks of the handler
EraseReceive(p, a, id) ==
    /\ procs[p].pc = "idle"
    /\ UNCHANGED <<envVars, ledgerVars, shopVars, lgpdVars>>
    /\ IF AdminGate(a) # Passed THEN resp' = AdminGate(a) /\ UNCHANGED procs
       ELSE IF ProcessVerdict(id) # Passed
       THEN resp' = ProcessVerdict(id) /\ UNCHANGED procs
       ELSE IF dataRequests[id].type = "ERASURE"
       THEN /\ procs' = [procs EXCEPT
                           ![p] = ErasureProc("create", id, dataRequests[id].userId, 0)]
            /\ UNCHANGED resp
       ELSE resp' = Reply(400, "Ação inválida") /\ UNCHANGED procs

\* createDataSubjectRequest
EraseCreate(p) ==
    /\ procs[p].pc = "create"
    /\ dataRequests' = Append(dataRequests, DataRequestRow(procs[p].u, "ERASURE"))
    /\ procs' = [procs EXCEPT ![p].pc = "check", ![p].row = Len(dataRequests) + 1]
    /\ UNCHANGED <<envVars, ledgerVars, shopVars, subscriptions, billingHistory,
                   addresses, userConsents, auditLogs, resp>>

\* canEraseUserData; when refused, updateRequestStatus and the throw
EraseCheck(p) ==
    /\ procs[p].pc = "check"
    /\ UNCHANGED <<envVars, ledgerVars, shopVars, subscriptions, billingHistory,
                   addresses, userConsents, auditLogs>>
    /\ IF canEraseUserData(procs[p].u) # ""
       THEN /\ dataRequests' = [dataRequests EXCEPT
                                   ![procs[p].row].status = "REJECTED",
                                   ![procs[p].row].adminId = "a1"]
            /\ resp' = InternalError
            /\ procs' = [procs EXCEPT ![p] = IdleErasure]
       ELSE /\ procs' = [procs EXCEPT ![p].pc = "export"]
            /\ UNCHANGED <<dataRequests, resp>>

\* BackupService.exportUserData, which may fail
EraseExport(p, exportOk) ==
    /\ procs[p].pc = "export"
    /\ UNCHANGED <<envVars, ledgerVars, shopVars, lgpdVars>>
    /\ IF exportOk
       THEN procs' = [procs EXCEPT ![p].pc = "anonymize"] /\ UNCHANGED resp
       ELSE procs' = [procs EXCEPT ![p] = IdleErasure] /\ resp' = InternalError

\* anonymizeUserData
EraseAnonymize(p) ==
    /\ procs[p].pc = "anonymize"
    /\ anonymizeUserData(procs[p].u)
    /\ UNCHANGED <<envVars, commissions, withdrawals, shopVars, dataRequests,
                   subscriptions, billingHistory, auditLogs>>
    /\ IF UniqueViolation(procs[p].u, AnonymizedRow(procs[p].u))
       THEN resp' = Duplicate /\ procs' = [procs EXCEPT ![p] = IdleErasure]
       ELSE procs' = [procs EXCEPT ![p].pc = "status"] /\ UNCHANGED resp

\* updateRequestStatus(request.id, 'COMPLETED', adminId, reason)
EraseStatus(p) ==
    /\ procs[p].pc = "status"
    /\ dataRequests' = [dataRequests EXCEPT ![procs[p].row].status = "COMPLETED",
                                            ![procs[p].row].adminId = "a1"]
    /\ procs' = [procs EXCEPT ![p].pc = "audit"]
    /\ UNCHANGED <<envVars, ledgerVars, shopVars, subscriptions, billingHistory,
                   addresses, userConsents, auditLogs, resp>>

\* AuditService.logEvent and the response of the handler
EraseAudit(p, auditOk) ==
    /\ procs[p].pc = "audit"
    /\ logEvent(AuditRow(procs[p].u, "a1", "USER_DEACTIVATED"), auditOk)
    /\ resp' = IF logEventVerdict(auditOk) # Passed
               THEN logEventVerdict(auditOk) ELSE Approved
    /\ procs' = [procs EXCEPT ![p] = IdleErasure]
    /\ UNCHANGED <<envVars, ledgerVars, shopVars, dataRequests, subscriptions,
                   billingHistory, addresses, userConsents>>

InitErasure ==
    /\ \E adminRow \in {SeedAdmin, RegisteredAdmin} : InitDatabase(adminRow)
    /\ adminEmailsEnv = {<<AdminEmail>>}
    /\ nodeEnv = "production"
    /\ resp = NoResponse
    /\ procs = [p \in {1} |-> IdleErasure]

ErasureRequestStep ==
    \E u \in BankActors :
        /\ RequestErasure(u)
        /\ Len(dataRequests') <= MaxDataRequests

ErasureWithdrawStep ==
    \E amount \in BankAmountInputs :
        /\ Withdraw("u1", amount)
        /\ Len(withdrawals') <= MaxBankRows

ErasurePutStep == \E input \in {BankInputA, BankInputB} : PutBankData("u1", input)

EraseReceiveStep ==
    \E id \in 1..MaxDataRequests :
        /\ Len(dataRequests) < MaxDataRequests
        /\ EraseReceive(1, "a1", id)
EraseCreateStep == EraseCreate(1)
EraseCheckStep == EraseCheck(1)
EraseExportStep == \E exportOk \in BOOLEAN : EraseExport(1, exportOk)
EraseAnonymizeStep == EraseAnonymize(1)
EraseStatusStep == EraseStatus(1)
EraseAuditStep == \E auditOk \in BOOLEAN : EraseAudit(1, auditOk)

NextErasure ==
    \/ ErasureRequestStep \/ ErasureWithdrawStep \/ ErasurePutStep
    \/ EraseReceiveStep \/ EraseCreateStep \/ EraseCheckStep \/ EraseExportStep
    \/ EraseAnonymizeStep \/ EraseStatusStep \/ EraseAuditStep

SpecErasure == InitErasure /\ [][NextErasure]_vars

\* C13: a user is never anonymized while holding an ACTIVE subscription, a
\* withdrawal request in PENDING, APPROVED or PROCESSING, or a billing record
\* of the last five years, also when the user's other requests are handled
\* between the exclusion check and the anonymization.
C13_NoErasureWhileExcluded ==
    [][ \A u \in DOMAIN users :
          (users[u].firstName # "ANONIMIZADO" /\ users'[u].firstName = "ANONIMIZADO")
          => canEraseUserData(u) = "" ]_vars

----------------------------------------------------------------------------
(* middleware/errorHandler.ts, middleware/notFound and the rate limiter of
   the server: the error responses *)

\* an Error object: its class, its name, statusCode (0 when the property is
\* absent), the Prisma or multer code, and whether it has a `body` property
ErrorObject(class, name, statusCode, code, hasBody, message) ==
    [class |-> class, name |-> name, statusCode |-> statusCode, code |-> code,
     hasBody |-> hasBody, message |-> message]
NoError == ErrorObject("", "", 0, "", FALSE, "")

\* createError(message, statusCode)
createError(message, statusCode) ==
    ErrorObject("Error", "Error", statusCode, "", FALSE, message)

HttpResponse(status, body) == [status |-> status, body |-> body]

\* errorHandler: statusCode and message chosen from the kind of the error
ErrorStatus(error) ==
    IF error.statusCode # 0 THEN error.statusCode
    ELSE IF error.class = "PrismaClientKnownRequestError"
    THEN CASE error.code = "P2002" -> 409
           [] error.code = "P2025" -> 404
           [] OTHER -> 400
    ELSE IF error.class = "PrismaClientValidationError" THEN 400
    ELSE IF error.class = "PrismaClientInitializationError" THEN 503
    ELSE IF error.class = "SyntaxError" /\ error.hasBody THEN 400
    ELSE IF error.name = "ValidationError" THEN 400
    ELSE IF error.name = "JsonWebTokenError" THEN 401
    ELSE IF error.name = "TokenExpiredError" THEN 401
    ELSE IF error.name = "MulterError" THEN 400
    ELSE 500

ErrorMessage(error) ==
    IF error.statusCode # 0 THEN error.message
    ELSE IF error.class = "PrismaClientKnownRequestError"
    THEN CASE error.code = "P2002" -> "Dados duplicados. Este registro já existe."
           [] error.code = "P2025" -> "Registro não encontrado."
           [] error.code = "P2003" -> "Violação de chave estrangeira."
           [] error.code = "P2014" -> "Dados inválidos fornecidos."
           [] OTHER -> "Erro de banco de dados."
    ELSE IF error.class = "PrismaClientValidationError"
    THEN "Dados de entrada inválidos."
    ELSE IF error.class = "PrismaClientInitializationError"
    THEN "Erro de conexão com o banco de dados."
    ELSE IF error.class = "SyntaxError" /\ error.hasBody
    THEN "JSON inválido fornecido."
    ELSE IF error.name = "ValidationError" THEN "Dados de entrada inválidos."
    ELSE IF error.name = "JsonWebTokenError" THEN "Token inválido."
    ELSE IF error.name = "TokenExpiredError" THEN "Token expirado."
    ELSE IF error.name = "MulterError"
    THEN CASE error.code = "LIMIT_FILE_SIZE" -> "Arquivo muito grande."
           [] error.code = "LIMIT_FILE_COUNT" -> "Muitos arquivos enviados."
           [] error.code = "LIMIT_UNEXPECTED_FILE" -> "Campo de arquivo inesperado."
           [] OTHER -> "Erro no upload do arquivo."
    ELSE "Erro interno do servidor"

\* details is set for P2002 and for a ValidationError
HasDetails(error) ==
    /\ error.statusCode = 0
    /\ \/ error.class = "PrismaClientKnownRequestError" /\ error.code = "P2002"
       \/ /\ error.class \notin {"PrismaClientKnownRequestError",
                               "PrismaClientValidationError",
                               "PrismaClientInitializationError"}
          /\ ~(error.class = "SyntaxError" /\ error.hasBody)
          /\ error.name = "ValidationError"

\* errorHandler: the errorResponse, with stack and details in development
errorHandler(error, env) ==
    LET plain == [message |-> ErrorMessage(error), statusCode |-> ErrorStatus(error)]
        stacked == [message |-> ErrorMessage(error), statusCode |-> ErrorStatus(error),
                    stack |-> "error.stack"]
        detailed == [message |-> ErrorMessage(error), statusCode |-> ErrorStatus(error),
                     stack |-> "error.stack", details |-> "details"]
    IN  HttpResponse(ErrorStatus(error),
            IF env # "development" THEN [success |-> FALSE, error |-> plain]
            ELSE IF HasDetails(error) THEN [success |-> FALSE, error |-> detailed]
            ELSE [success |-> FALSE, error |-> stacked])

\* notFound: `Rota ${req.originalUrl} não encontrada`
notFound(url) ==
    HttpResponse(404, [success |-> FALSE,
                       error |-> [message |-> <<"Rota ", url, " não encontrada">>,
                                  statusCode |-> 404]])

\* rateLimit({max, message}) of the server: beyond max requests in the window
\* express-rate-limit answers 429 with the configured message as the body
RateLimitMax == 100
RateLimited ==
    HttpResponse(429, [error |-> "Muitas tentativas. Tente novamente em alguns minutos."])

\* GET /health
Health == HttpResponse(200, [status |-> "OK"])

\* the request in flight: the error passed to next() and the number of
\* requests the limiter has counted in the current window
ErrorsProc(pc, error, hits) == [pc |-> pc, error |-> error, hits |-> hits]

\* app.use(limiter): the request is counted, and refused beyond the maximum
Limited(p) == procs[p].hits >= RateLimitMax
Count(p) == IF Limited(p) THEN procs[p].hits ELSE procs[p].hits + 1

\* a route handler throws: asyncHandler passes the error to next()
ThrowError(p, error) ==
    /\ procs[p].pc = "idle"
    /\ UNCHANGED <<envVars, ledgerVars, shopVars, lgpdVars>>
    /\ IF Limited(p) THEN resp' = RateLimited /\ UNCHANGED procs
       ELSE /\ procs' = [procs EXCEPT ![p] = ErrorsProc("thrown", error, Count(p))]
            /\ UNCHANGED resp

\* app.use(errorHandler)
HandleError(p) ==
    /\ procs[p].pc = "thrown"
    /\ resp' = errorHandler(procs[p].error, nodeEnv)
    /\ procs' = [procs EXCEPT ![p].pc = "idle"]
    /\ UNCHANGED <<envVars, ledgerVars, shopVars, lgpdVars>>

\* a request to a path no router serves: app.use(notFound)
UnknownRoute(p, url) ==
    /\ procs[p].pc = "idle"
    /\ resp' = IF Limited(p) THEN RateLimited ELSE notFound(url)
    /\ procs' = [procs EXCEPT ![p].hits = Count(p)]
    /\ UNCHANGED <<envVars, ledgerVars, shopVars, lgpdVars>>

\* GET /health
GetHealth(p) ==
    /\ procs[p].pc = "idle"
    /\ resp' = IF Limited(p) THEN RateLimited ELSE Health
    /\ procs' = [procs EXCEPT ![p].hits = Count(p)]
    /\ UNCHANGED <<envVars, ledgerVars, shopVars, lgpdVars>>

\* the window of the limiter ends
WindowReset(p) ==
    /\ procs[p].pc = "idle"
    /\ procs[p].hits > 0
    /\ procs' = [procs EXCEPT ![p].hits = 0]
    /\ UNCHANGED <<envVars, ledgerVars, shopVars, lgpdVars, resp>>

ThrownErrors ==
    {createError("Solicitação não encontrada", 404),
     createError("Token de acesso requerido", 401),
     createError("Acesso negado", 403),
     ErrorObject("PrismaClientKnownRequestError", "PrismaClientKnownRequestError", 0, "P2002", FALSE, "Unique constraint failed"),
     ErrorObject("PrismaClientKnownRequestError", "PrismaClientKnownRequestError", 0, "P2025", FALSE, "Record not found"),
     ErrorObject("PrismaClientKnownRequestError", "PrismaClientKnownRequestError", 0, "P2034", FALSE, "Transaction failed"),
     ErrorObject("PrismaClientValidationError", "PrismaClientValidationError", 0, "", FALSE, "Argument missing"),
     ErrorObject("PrismaClientInitializationError", "PrismaClientInitializationError", 0, "", FALSE, "Can't reach database"),
     ErrorObject("SyntaxError", "SyntaxError", 0, "", TRUE, "Unexpected token"),
     ErrorObject("SyntaxError", "SyntaxError", 0, "", FALSE, "Unexpected token"),
     ErrorObject("Error", "ValidationError", 0, "", FALSE, "\"email\" is required"),
     ErrorObject("Error", "JsonWebTokenError", 0, "", FALSE, "jwt malformed"),
     ErrorObject("Error", "TokenExpiredError", 0, "", FALSE, "jwt expired"),
     ErrorObject("Error", "MulterError", 0, "LIMIT_FILE_SIZE", FALSE, "File too large"),
     ErrorObject("Error", "Error", 0, "", FALSE, "Usuário possui solicitações de saque pendentes."),
     ErrorObject("TypeError", "TypeError", 0, "", FALSE, "Cannot read properties of undefined")}

Urls == {"/api/nothing"}

InitErrors ==
    /\ InitDatabase(SeedAdmin)
    /\ adminEmailsEnv = {<<AdminEmail>>}
    /\ nodeEnv \in {"production", "development"}
    /\ resp = HttpResponse(0, [status |-> ""])
    /\ procs = [p \in {1} |-> ErrorsProc("idle", NoError, 0)]

ThrowErrorStep == \E error \in ThrownErrors : ThrowError(1, error)
HandleErrorStep == HandleError(1)
UnknownRouteStep == \E url \in Urls : UnknownRoute(1, url)
GetHealthStep == GetHealth(1)
WindowResetStep == WindowReset(1)

NextErrors == ThrowErrorStep \/ HandleErrorStep \/ UnknownRouteStep
              \/ GetHealthStep \/ WindowResetStep

SpecErrors == InitErrors /\ [][NextErrors]_vars

\* the body has the shape {success: false, error: {message, statusCode}}
\* and the HTTP status equals error.statusCode
IsEnvelope(r) ==
    /\ DOMAIN r.body = {"success", "error"}
    /\ r.body.success = FALSE
    /\ {"message", "statusCode"} \subseteq DOMAIN r.body.error
    /\ r.body.error.statusCode = r.status

\* the errors errorHandler recognizes by statusCode, class or name
Recognized(error) ==
    \/ error.statusCode # 0
    \/ error.class \in {"PrismaClientKnownRequestError", "PrismaClientValidationError",
                        "PrismaClientInitializationError"}
    \/ error.class = "SyntaxError" /\ error.hasBody
    \/ error.name \in {"ValidationError", "JsonWebTokenError", "TokenExpiredError",
                       "MulterError"}

\* C16: every error response, whatever its origin (application error, ORM
\* error, validation error, JWT error, unknown route, rate limit), has the
\* body {success: false, error: {message, statusCode}} with the HTTP status
\* equal to error.statusCode, and an error of no recognized kind yields 500.
C16_ErrorEnvelope ==
    /\ [](resp.status >= 400 => IsEnvelope(resp))
    /\ [][ (procs[1].pc = "thrown" /\ procs'[1].pc = "idle"
              /\ ~Recognized(procs[1].error))
           => resp'.status = 500 ]_vars

----------------------------------------------------------------------------
(* user routes: PUT /user/profile; LGPD routes: POST /request/rectification *)

\* a body of the two routes; a field the body does not carry is ABSENT
ProfileBody(firstName, lastName, phone, referredById) ==
    [firstName |-> firstName, lastName |-> lastName, phone |-> phone,
     birthDate |-> ABSENT, referredById |-> referredById]

\* String.prototype.length of the names of the model
StrLen(str) == CASE str = "" -> 0 [] str = "M" -> 1 [] OTHER -> 7

Truthy(field) == field # ABSENT /\ field # ""

\* the two length checks of PUT /user/profile
CheckProfile(body) ==
    IF Truthy(body.firstName)
       /\ (StrLen(body.firstName) < 2 \/ StrLen(body.firstName) > 50)
    THEN Reply(400, "Nome deve ter entre 2 e 50 caracteres")
    ELSE IF Truthy(body.lastName)
            /\ (StrLen(body.lastName) < 2 \/ StrLen(body.lastName) > 50)
    THEN Reply(400, "Sobrenome deve ter entre 2 e 50 caracteres")
    ELSE Passed

\* variant: the whole body is handed to prisma.user.update
ProfileUpdateDataWhole(body) ==
    [f \in {g \in DOMAIN body : Truthy(body[g])} |-> body[f]]

\* updateData: the four fields the handler destructures, when truthy
ProfileUpdateData(body) ==
    [f \in {g \in {"firstName", "lastName", "phone", "birthDate"} :
               Truthy(body[g])} |-> body[f]]

\* prisma.user.update({where: {id}, data})
UpdatedUserRow(row, data) ==
    [f \in DOMAIN row |-> IF f \in DOMAIN data THEN data[f] ELSE row[f]]

ProfileUpdated == Reply(200, "Perfil atualizado com sucesso")

PutProfile(u, body) ==
    /\ UNCHANGED <<envVars, procs>>
    /\ IF authenticate(u) # Passed THEN Refuse(authenticate(u))
       ELSE IF CheckProfile(body) # Passed THEN Refuse(CheckProfile(body))
       ELSE /\ users' = Put(users, u,
                            UpdatedUserRow(users[u], ProfileUpdateData(body)))
            /\ resp' = ProfileUpdated
            /\ UNCHANGED <<bankData, commissions, withdrawals, shopVars, lgpdVars>>

\* validateRequest(rectificationSchema): the body carries only firstName,
\* lastName, phone and birthDate
RectificationValid(body) ==
    /\ body.referredById = ABSENT
    /\ \A f \in {"firstName", "lastName", "phone"} : body[f] # ""

Rectified == Reply(200, "Dados atualizados com sucesso")

\* LGPDService.processRectificationRequest: a request row is created, the
\* updates are written as they came, the row is closed and the event logged
processRectificationRequest(u, updates, auditOk) ==
    /\ users' = Put(users, u,
                    UpdatedUserRow(users[u],
                        [f \in {g \in DOMAIN updates : updates[g] # ABSENT}
                            |-> updates[f]]))
    /\ dataRequests' = Append(dataRequests,
                              [DataRequestRow(u, "RECTIFICATION")
                                  EXCEPT !.status = "COMPLETED"])
    /\ logEvent(AuditRow(u, NULL, "USER_UPDATED"), auditOk)
    /\ resp' = IF logEventVerdict(auditOk) # Passed
               THEN logEventVerdict(auditOk) ELSE Rectified

\* POST /lgpd/request/rectification
RequestRectification(u, body, auditOk) ==
    /\ UNCHANGED <<envVars, procs>>
    /\ IF authenticate(u) # Passed THEN Refuse(authenticate(u))
       ELSE IF ~RectificationValid(body) THEN Refuse(ValidationError)
       ELSE /\ processRectificationRequest(u, body, auditOk)
            /\ UNCHANGED <<bankData, commissions, withdrawals, shopVars,
                           subscriptions, billingHistory, addresses,
                           userConsents>>

----------------------------------------------------------------------------
(* SpecAccount: registration, profile, rectification and erasure *)

MaxAccountRequests == 2     \* rows of data_subject_requests in SpecAccount

AccountBodies ==
    { RegisterBody(Email("bia", "example.com"), Cpf5, 1990, ref) :
        ref \in {{}, {<<"b", "2">>}} }
    \cup { RegisterBody(Email("caio", "example.com"), Cpf6, 1990, ref) :
        ref \in {{<<"e", "5">>}, {<<"z", "9">>}} }

\* the codes generateReferralCode draws in this specification
AccountCodes == {Code("E", "5"), Code("F", "6")}

ProfileBodies ==
    { ProfileBody("Mariana", ABSENT, ABSENT, ABSENT),
      ProfileBody("M", ABSENT, ABSENT, ABSENT),
      ProfileBody(ABSENT, ABSENT, "11988887777", "u2") }

RectificationBodies ==
    { ProfileBody(ABSENT, "Souza", ABSENT, ABSENT),
      ProfileBody(ABSENT, ABSENT, ABSENT, "u3") }

InitAccount ==
    /\ InitDatabase(RegisteredAdmin)
    /\ adminEmailsEnv = {<<AdminEmail>>}
    /\ nodeEnv = "production"
    /\ resp = NoResponse
    /\ procs = [p \in {1} |->
                  RegisterProc("idle", RegisterBody(Email("bia", "example.com"),
                                                    Cpf5, 1990, {}),
                               NoResponse)]

AccountReceiveStep == \E body \in AccountBodies : RegisterReceive(body)
AccountRegisterStep ==
    \E code \in AccountCodes, emailOk \in BOOLEAN : Register(code, emailOk)
AccountProfileStep == \E body \in ProfileBodies : PutProfile("u1", body)
AccountRectificationStep ==
    \E body \in RectificationBodies, auditOk \in BOOLEAN :
        /\ RequestRectification("u2", body, auditOk)
        /\ Len(dataRequests') <= MaxAccountRequests
AccountErasureStep ==
    /\ RequestErasure("u1")
    /\ Len(dataRequests') <= MaxAccountRequests
AccountProcessStep ==
    \E id \in 1..MaxAccountRequests, auditOk \in BOOLEAN :
        /\ ProcessDataRequest("a1", id, "approve", TRUE, auditOk)
        /\ Len(dataRequests') <= MaxAccountRequests

NextAccount ==
    \/ AccountReceiveStep
    \/ AccountRegisterStep
    \/ AccountProfileStep
    \/ AccountRectificationStep
    \/ AccountErasureStep
    \/ AccountProcessStep

SpecAccount == InitAccount /\ [][NextAccount]_vars

RECURSIVE ReachesBack(_, _, _)
\* following referredById from user `from` for at most n links meets `target`
ReachesBack(from, target, n) ==
    IF n = 0 \/ from \notin DOMAIN users THEN FALSE
    ELSE LET ref == users[from].referredById
         IN  ref = target \/ ReachesBack(ref, target, n - 1)

IsForest == \A u \in DOMAIN users :
                ~ReachesBack(u, u, Cardinality(DOMAIN users))

----------------------------------------------------------------------------
(* auth routes: POST /auth/verify-email, POST /auth/forgot-password *)

EmailVerified == Reply(200, "Email verificado com sucesso!")
ForgotSent == Reply(200, "Se o email estiver cadastrado, você receberá instruções para redefinir sua senha.")

\* the verification token mailed to user n is written <<n>>; a body without
\* token carries <<>>
NoToken == <<>>

\* POST /auth/verify-email: the token is required and then taken as valid;
\* no query is made
VerifyEmail(token) ==
    /\ resp' = IF token = NoToken
               THEN Reply(400, "Token de verificação requerido")
               ELSE EmailVerified
    /\ UNCHANGED <<envVars, procs, ledgerVars, shopVars, lgpdVars>>

\* a body without email, or with an empty one
NoEmail == <<>>

\* prisma.user.findUnique({ where: { email } })
UserByEmail(email) == {id \in DOMAIN users : users[id].email = email}

\* POST /auth/forgot-password
ForgotPassword(email, emailOk) ==
    /\ UNCHANGED <<settingVars, procs, ledgerVars, shopVars,
                   lgpdVars>>
    /\ IF email = NoEmail
       THEN resp' = Reply(400, "Email é obrigatório") /\ UNCHANGED outbox
       ELSE IF UserByEmail(email) = {}
       THEN resp' = ForgotSent /\ UNCHANGED outbox
       ELSE /\ sendEmail(email, "reset", emailOk)
            /\ resp' = IF sendEmailVerdict(emailOk) # Passed
                       THEN sendEmailVerdict(emailOk) ELSE ForgotSent

AuthBodies ==
    { RegisterBody(Email("bia", "example.com"), Cpf5, 1990, {}),
      RegisterBody(Email("caio", "example.com"), Cpf6, 1990, {<<"b", "2">>}),
      RegisterBody(Email("caio", "example.com"), Cpf5, 2015, {}) }

ForgotEmails == {NoEmail, Email("maria", "example.com"), Email("bia", "example.com"),
                 Email("nobody", "example.com")}

InitAuth ==
    /\ InitDatabase(SeedAdmin)
    /\ adminEmailsEnv = {<<AdminEmail>>}
    /\ nodeEnv = "production"
    /\ resp = NoResponse
    /\ procs = [p \in {1} |->
                  RegisterProc("idle", RegisterBody(Email("bia", "example.com"),
                                                    Cpf5, 1990, {}), NoResponse)]

AuthReceiveStep == \E body \in AuthBodies : RegisterReceive(body)
AuthRegisterStep ==
    \E code \in AccountCodes, emailOk \in BOOLEAN : Register(code, emailOk)
AuthVerifyStep == \E token \in {NoToken} \cup {<<n>> : n \in DOMAIN users} :
                      VerifyEmail(token)
AuthProfileStep ==
    \E n \in DOMAIN users \ {"a1", "u2", "u3"}, body \in ProfileBodies :
        PutProfile(n, body)
AuthForgotStep ==
    \E email \in ForgotEmails, emailOk \in BOOLEAN : ForgotPassword(email, emailOk)

NextAuth == AuthReceiveStep \/ AuthRegisterStep \/ AuthVerifyStep
            \/ AuthProfileStep \/ AuthForgotStep

SpecAuth == InitAuth /\ [][NextAuth]_vars

\* C18: after a user registers and submits the verification token to
\* POST /auth/verify-email, the account is activated (emailVerified is true),
\* so that authenticate accepts the bearer token of that user.
C18_ActivationCompletes ==
    [][ \A n \in DOMAIN users \ UserIds :
          (VerifyEmail(<<n>>) /\ resp' = EmailVerified)
          => /\ users'[n].emailVerified
             /\ users'[n].isActive ]_vars

\* C19: POST /auth/forgot-password does not reveal whether the email is
\* registered: every request that carries an email gets the same success
\* response, also when sending the reset email fails.
C19_ForgotPasswordUniform ==
    [][ \A email \in ForgotEmails \ {NoEmail}, emailOk \in BOOLEAN :
          ForgotPassword(email, emailOk) => resp' = ForgotSent ]_vars

----------------------------------------------------------------------------
(* SpecSignup: POST /auth/register, one step per awaited query, two requests
   in flight *)

SignupRequests == {1, 2}

\* a request in flight: the body, the referral code the loop ended with, the
\* referrer found, and the reply once answered
SignupProc(pc, body, code, referredById, reply) ==
    [pc |-> pc, body |-> body, code |-> code, referredById |-> referredById,
     reply |-> reply]
IdleSignup ==
    SignupProc("idle", RegisterBody(Email("bia", "example.com"), Cpf5, 1990, {}),
               Code("E", "5"), NULL, NoResponse)

SignupAnswer(p, r) ==
    /\ procs' = [procs EXCEPT ![p].pc = "done", ![p].reply = r]
    /\ resp' = r

\* validate(registerSchema, req.body) and the age check
SignupReceive(p, body) ==
    /\ procs[p].pc \in {"idle", "done"}
    /\ UNCHANGED <<envVars, ledgerVars, shopVars, lgpdVars>>
    /\ IF ~RegisterValid(body)
       THEN /\ procs' = [procs EXCEPT ![p] = [IdleSignup EXCEPT
                            !.pc = "done", !.body = body, !.reply = ValidationError]]
            /\ resp' = ValidationError
       ELSE IF ~isMinimumAge(body.birthYear)
       THEN /\ procs' = [procs EXCEPT ![p] = [IdleSignup EXCEPT
                            !.pc = "done", !.body = body,
                            !.reply = Reply(400,
                                "Você deve ter pelo menos 18 anos para se cadastrar")]]
            /\ resp' = Reply(400, "Você deve ter pelo menos 18 anos para se cadastrar")
       ELSE /\ procs' = [procs EXCEPT ![p] = [IdleSignup EXCEPT
                            !.pc = "find", !.body = body]]
            /\ UNCHANGED resp

\* prisma.user.findFirst by email or cleaned CPF, and the 409 of the handler
SignupFind(p) ==
    /\ procs[p].pc = "find"
    /\ UNCHANGED <<envVars, ledgerVars, shopVars, lgpdVars>>
    /\ LET found == ExistingUsers(procs[p].body.email, cleanCPF(procs[p].body.cpf))
       IN  IF found # {}
           THEN \E id \in found :
                    SignupAnswer(p, ExistingVerdict(users[id], procs[p].body.email))
           ELSE procs' = [procs EXCEPT ![p].pc = "code"] /\ UNCHANGED resp

\* generateReferralCode and prisma.user.findUnique by referralCode: the loop
\* goes on while the drawn code is in use
SignupCode(p, code) ==
    /\ procs[p].pc = "code"
    /\ UNCHANGED <<envVars, ledgerVars, shopVars, lgpdVars, resp>>
    /\ procs' = IF code \in FreeCodes
                THEN [procs EXCEPT ![p].pc = "referrer", ![p].code = code]
                ELSE [procs EXCEPT ![p].code = code]

\* prisma.user.findUnique by the referral code of the body
SignupReferrer(p) ==
    /\ procs[p].pc = "referrer"
    /\ UNCHANGED <<envVars, ledgerVars, shopVars, lgpdVars>>
    /\ LET body == procs[p].body
           referrers == ReferrerOf(CHOOSE c \in body.referralCode : TRUE)
       IN  IF ~HasReferralCode(body)
           THEN procs' = [procs EXCEPT ![p].pc = "create"] /\ UNCHANGED resp
           ELSE IF referrers = {}
           THEN SignupAnswer(p, Reply(400, "Código de indicação inválido"))
           ELSE /\ procs' = [procs EXCEPT ![p].pc = "create",
                               ![p].referredById = CHOOSE id \in referrers : TRUE]
                /\ UNCHANGED resp

\* schema.prisma: email, cpf and referralCode of User are @unique
CreateViolation(row) ==
    \E o \in DOMAIN users : \/ users[o].email = row.email
                            \/ users[o].cpf = row.cpf
                            \/ users[o].referralCode = row.referralCode

\* variant: the table has no unique indexes
SignupCreateUnconstrained(p, emailOk) ==
    /\ procs[p].pc = "create"
    /\ UNCHANGED <<bankData, commissions, withdrawals, shopVars, lgpdVars,
                   settingVars>>
    /\ users' = Put(users, NewUserId,
                    NewUserRow(procs[p].body, procs[p].code, procs[p].referredById))
    /\ sendEmail(procs[p].body.email, "welcome", emailOk)
    /\ SignupAnswer(p, Registered)

\* prisma.user.create, which fails with P2002 on a unique index, then the
\* welcome email and the 201
SignupCreate(p, emailOk) ==
    /\ procs[p].pc = "create"
    /\ UNCHANGED <<bankData, commissions, withdrawals, shopVars, lgpdVars,
                   settingVars>>
    /\ LET row == NewUserRow(procs[p].body, procs[p].code, procs[p].referredById)
       IN  IF CreateViolation(row)
           THEN /\ SignupAnswer(p, Duplicate)
                /\ UNCHANGED <<users, outbox>>
           ELSE /\ users' = Put(users, NewUserId, row)
                /\ sendEmail(procs[p].body.email, "welcome", emailOk)
                /\ SignupAnswer(p, IF WelcomeEmailVerdict(emailOk) # Passed
                                   THEN WelcomeEmailVerdict(emailOk)
                                   ELSE Registered)

SignupBodies ==
    { RegisterBody(Email("bia", "example.com"), Cpf5, 1990, {}),
      RegisterBody(Email("bia", "example.com"), Cpf6, 1990, {}),
      RegisterBody(Email("caio", "example.com"), cleanCPF(Cpf5), 1990, {<<"b", "2">>}),
      RegisterBody(Email("maria", "example.com"), Cpf6, 1990, {}),
      RegisterBody(Email("caio", "example.com"), CpfBad, 1990, {}) }

InitSignup ==
    /\ InitDatabase(SeedAdmin)
    /\ adminEmailsEnv = {<<AdminEmail>>}
    /\ nodeEnv = "production"
    /\ resp = NoResponse
    /\ procs = [p \in SignupRequests |-> IdleSignup]

\* the requests in flight never outnumber the ids left for new users
InFlight == {q \in SignupRequests : procs[q].pc \notin {"idle", "done"}}

SignupReceiveStep ==
    \E p \in SignupRequests, body \in SignupBodies :
        /\ Cardinality(InFlight) < Cardinality(NewIds \ DOMAIN users)
        /\ SignupReceive(p, body)
SignupFindStep == \E p \in SignupRequests : SignupFind(p)
SignupCodeStep == \E p \in SignupRequests, code \in AccountCodes : SignupCode(p, code)
SignupReferrerStep == \E p \in SignupRequests : SignupReferrer(p)
SignupCreateStep ==
    \E p \in SignupRequests, emailOk \in BOOLEAN : SignupCreate(p, emailOk)

NextSignup == SignupReceiveStep \/ SignupFindStep \/ SignupCodeStep
              \/ SignupReferrerStep \/ SignupCreateStep

SpecSignup == InitSignup /\ [][NextSignup]_vars

\* the email or the cleaned CPF of the body is held by a user
InUse(body) == ExistingUsers(body.email, cleanCPF(body.cpf)) # {}

\* C20: no two users share an email, a CPF or a referral code, concurrent
\* registrations included, and a registration whose email or CPF is already
\* used is rejected with 409 and creates no user.
C20_UniqueUsers ==
    /\ [](\A a, b \in DOMAIN users :
            a # b => /\ users[a].email # users[b].email
                     /\ users[a].cpf # users[b].cpf
                     /\ users[a].referralCode # users[b].referralCode)
    /\ [][ \A p \in SignupRequests :
             (/\ procs[p].pc \in {"find", "create"}
              /\ procs'[p] # procs[p]
              /\ InUse(procs[p].body))
             => /\ procs'[p].pc = "done"
                /\ procs'[p].reply.status = 409
                /\ users' = users ]_vars

\* two requests with the same email both passed findFirst; one created the
\* user and the other was answered 409 by the unique index
C20_Witness ==
    /\ procs[1].pc = "done" /\ procs[2].pc = "done"
    /\ procs[1].body.email = procs[2].body.email
    /\ procs[1].body.cpf # procs[2].body.cpf
    /\ {procs[1].reply, procs[2].reply} = {Registered, Duplicate}

----------------------------------------------------------------------------
(* SpecProcess: one erasure request of u1 and the admin's process calls *)

MaxProcessRows == 3     \* rows of data_subject_requests in SpecProcess

AlreadyProcessed == Reply(400, "Solicitação já foi processada")

InitProcess ==
    /\ \E adminRow \in {SeedAdmin, RegisteredAdmin} : InitDatabase(adminRow)
    /\ adminEmailsEnv = {<<AdminEmail>>}
    /\ nodeEnv = "production"
    /\ resp = NoResponse
    /\ procs = NoProcs

\* u1 sends the only request a user sends here: it is row 1, and every later
\* row is one that a process call created
ProcessRequestStep ==
    /\ dataRequests = <<>>
    /\ RequestErasure("u1")

ProcessCallStep ==
    \E id \in 1..MaxProcessRows, action \in ProcessActions,
       exportOk \in BOOLEAN, auditOk \in BOOLEAN :
        /\ ProcessDataRequest("a1", id, action, exportOk, auditOk)
        /\ Len(dataRequests') <= MaxProcessRows

ProcessPutStep == \E input \in {BankInputA, BankInputB} : PutBankData("u1", input)

ProcessWithdrawStep ==
    \E amount \in BankAmountInputs :
        /\ Withdraw("u1", amount)
        /\ Len(withdrawals') <= MaxBankRows

ProcessPatchStep ==
    \E id \in 1..MaxBankRows, status \in BankPatchStatuses, date \in Dates :
        PatchWithdrawal("a1", id, status, ABSENT, date)

NextProcess == ProcessRequestStep \/ ProcessCallStep \/ ProcessPutStep
               \/ ProcessWithdrawStep \/ ProcessPatchStep

SpecProcess == InitProcess /\ [][NextProcess]_vars

\* request id has been processed: it has left PENDING, or it is u1's request
\* (row 1) and an approval of it completed an erasure
WasProcessed(id) ==
    \/ dataRequests[id].status # "PENDING"
    \/ /\ id = 1
       /\ \E i \in DOMAIN dataRequests : dataRequests[i].status = "COMPLETED"

\* C21: each data-subject request is processed at most once: after an admin
\* has processed a request by approve or by reject, every later process call
\* for the same request id is refused with 400 'Solicitação já foi
\* processada' and changes no state.
C21_ProcessedAtMostOnce ==
    [][ \A id \in DOMAIN dataRequests, action \in ProcessActions,
           exportOk \in BOOLEAN, auditOk \in BOOLEAN :
          (WasProcessed(id)
              /\ ProcessDataRequest("a1", id, action, exportOk, auditOk))
          => /\ resp' = AlreadyProcessed
             /\ users' = users
             /\ bankData' = bankData
             /\ dataRequests' = dataRequests
             /\ addresses' = addresses
             /\ userConsents' = userConsents
             /\ auditLogs' = auditLogs ]_vars

----------------------------------------------------------------------------
(* SpecPayout: withdrawals with valid amounts, approved and paid by the admin *)

MaxPayoutRows == 3      \* rows of withdrawal_requests in SpecPayout

PayoutAmounts == {Num(40), Num(60)}
PayoutStatuses == {"APPROVED", "PAID"}

InitPayout ==
    /\ InitDatabase(SeedAdmin)
    /\ adminEmailsEnv = {<<AdminEmail>>}
    /\ nodeEnv = "production"
    /\ resp = NoResponse
    /\ procs = NoProcs

PayoutWithdrawStep ==
    \E u \in {"u1", "u2"}, amount \in PayoutAmounts :
        /\ Withdraw(u, amount)
        /\ Len(withdrawals') <= MaxPayoutRows

PayoutPatchStep ==
    \E id \in 1..MaxPayoutRows, status \in PayoutStatuses, date \in Dates :
        PatchWithdrawal("a1", id, status, ABSENT, date)

NextPayout == PayoutWithdrawStep \/ PayoutPatchStep

SpecPayout == InitPayout /\ [][NextPayout]_vars

\* the amounts paid out to user u, and the commissions u has earned (every
\* commission row of u, whatever its status)
PaidRows(u) == {i \in DOMAIN withdrawals :
                   withdrawals[i].userId = u /\ withdrawals[i].status = "PAID"}
PaidSum(u) == SumOver(withdrawals, PaidRows(u))
EarnedRows(u) == {i \in DOMAIN commissions : commissions[i].earnerId = u}
EarnedSum(u) == SumOver(commissions, EarnedRows(u))

\* C22: for every user and every reachable state, the sum of the amounts of
\* the user's withdrawal requests with status PAID does not exceed the sum
\* of the amounts of the commissions the user has earned.
C22_PaidWithinEarned == \A u \in DOMAIN users : PaidSum(u) <= EarnedSum(u)

----------------------------------------------------------------------------
(* middleware/auth.ts: the bearer tokens; auth routes: POST /auth/login *)

AccessDays == 7         \* JWT_EXPIRES_IN || '7d'
RefreshDays == 30       \* REFRESH_TOKEN_EXPIRES_IN || '30d'
MaxDay == 8             \* days the clock of SpecTokens runs
MaxLogins == 2          \* logins handled in SpecTokens

\* jwt.sign(payload, key, {expiresIn}): the payload {id, email}, the time of
\* issue and of expiry in days, and the key of the signature
Jwt(id, email, iat, exp, key) ==
    [id |-> id, email |-> email, iat |-> iat, exp |-> exp, key |-> key]
JwtSecret == "JWT_SECRET"

generateToken(id, email, day) == Jwt(id, email, day, day + AccessDays, JwtSecret)
generateRefreshToken(id, email, day) ==
    Jwt(id, email, day, day + RefreshDays, JwtSecret)

\* jwt.verify(token, process.env.JWT_SECRET): the signature, then the expiry
jwtVerify(token, day) ==
    IF token.key # JwtSecret THEN "JsonWebTokenError"
    ELSE IF day >= token.exp THEN "TokenExpiredError"
    ELSE "decoded"

\* authenticate on a request that carries `Bearer token`; TokenExpiredError
\* extends JsonWebTokenError, so both are answered 'Token inválido'
authenticateBearer(token, day) ==
    IF jwtVerify(token, day) # "decoded" THEN Reply(401, "Token inválido")
    ELSE authenticate(token.id)

\* the state of the token specifications: the day, the tokens issued so far
\* as <<kind, token>>, and the bearer token of the last request
TokenProc(day, issued, bearer) == [day |-> day, issued |-> issued, bearer |-> bearer]

LoggedIn == Reply(200, "Login realizado com sucesso")
ProfileRead == Reply(200, "data.user")

\* variant: the login that does not look at isActive
LoginUnchecked(email, passwordOk) ==
    /\ UNCHANGED <<envVars, ledgerVars, shopVars, lgpdVars>>
    /\ IF UserByEmail(email) = {} \/ ~passwordOk
       THEN /\ resp' = Reply(401, "Email ou senha incorretos")
            /\ procs' = [procs EXCEPT ![1].bearer = {}]
       ELSE LET u == CHOOSE id \in UserByEmail(email) : TRUE
            IN  /\ resp' = LoggedIn
                /\ procs' = [procs EXCEPT
                     ![1].bearer = {},
                     ![1].issued = @ \cup
                       {<<"access", generateToken(u, email, procs[1].day)>>,
                        <<"refresh", generateRefreshToken(u, email, procs[1].day)>>}]

\* POST /auth/login: prisma.user.findUnique({where: {email}}), the password,
\* then isActive; the request carries no bearer token
Login(email, passwordOk) ==
    /\ UNCHANGED <<envVars, ledgerVars, shopVars, lgpdVars>>
    /\ IF UserByEmail(email) = {} \/ ~passwordOk
       THEN /\ resp' = Reply(401, "Email ou senha incorretos")
            /\ procs' = [procs EXCEPT ![1].bearer = {}]
       ELSE LET u == CHOOSE id \in UserByEmail(email) : TRUE
            IN  IF ~users[u].isActive
                THEN /\ resp' = Reply(401, "Conta desativada. Entre em contato com o suporte.")
                     /\ procs' = [procs EXCEPT ![1].bearer = {}]
                ELSE /\ resp' = LoggedIn
                     /\ procs' = [procs EXCEPT
                          ![1].bearer = {},
                          ![1].issued = @ \cup
                            {<<"access", generateToken(u, email, procs[1].day)>>,
                             <<"refresh", generateRefreshToken(u, email, procs[1].day)>>}]

\* GET /user/profile behind router.use(authenticate)
GetProfile(token) ==
    /\ resp' = IF authenticateBearer(token, procs[1].day) # Passed
               THEN authenticateBearer(token, procs[1].day)
               ELSE ProfileRead
    /\ procs' = [procs EXCEPT ![1].bearer = {token}]
    /\ UNCHANGED <<envVars, ledgerVars, shopVars, lgpdVars>>

\* a day passes
NextDay ==
    /\ procs' = [procs EXCEPT ![1].day = @ + 1]
    /\ UNCHANGED <<envVars, ledgerVars, shopVars, lgpdVars, resp>>

\* a token signed with another key
ForgedTokens == {Jwt("u1", Email("maria", "example.com"), 0, RefreshDays, "guess")}

InitTokens ==
    /\ InitDatabase(SeedAdmin)
    /\ adminEmailsEnv = {<<AdminEmail>>}
    /\ nodeEnv = "production"
    /\ resp = NoResponse
    /\ procs = [p \in {1} |-> TokenProc(0, {}, {})]

Logins == {t \in procs[1].issued : t[1] = "access"}
LoginEmails == {Email("maria", "example.com"), Email("joao", "example.com"),
                Email("nobody", "example.com")}

TokensLoginStep ==
    \E email \in LoginEmails, passwordOk \in BOOLEAN :
        /\ Cardinality(Logins) < MaxLogins
        /\ Login(email, passwordOk)
TokensProfileStep ==
    \E token \in {t[2] : t \in procs[1].issued} \cup ForgedTokens : GetProfile(token)
TokensDayStep == procs[1].day < MaxDay /\ NextDay

NextTokens == TokensLoginStep \/ TokensProfileStep \/ TokensDayStep

SpecTokens == InitTokens /\ [][NextTokens]_vars

\* C23: a refresh token is not an access credential: authenticate accepts a
\* bearer token only if generateToken issued it as an access token, and
\* rejects with 401 a token issued by generateRefreshToken.
C23_RefreshTokenRefused ==
    \A token \in procs[1].bearer :
        /\ resp.status # 401 => <<"access", token>> \in procs[1].issued
        /\ <<"refresh", token>> \in procs[1].issued => resp.status = 401

----------------------------------------------------------------------------
(* subscription routes: POST /subscriptions/subscribe, POST /subscriptions/cancel *)

\* table subscription_plans: the two plans of seed.ts and one taken off sale;
\* no modelled route writes it
SubscriptionPlans ==
    [id \in {"basic-plan", "premium-plan", "legacy-plan"} |->
        [isActive |-> id # "legacy-plan"]]

\* prisma.subscriptionPlan.findFirst({where: {id: planId, isActive: true}})
FindPlan(planId) ==
    {id \in DOMAIN SubscriptionPlans : id = planId /\ SubscriptionPlans[id].isActive}

Subscribed == Reply(201, "Assinatura criada com sucesso")
SubscriptionCanceled == Reply(200, "Assinatura cancelada com sucesso")

\* the checks of the handler before the insert
SubscribeVerdict(u, planId) ==
    IF planId = "" THEN Reply(400, "ID do plano é obrigatório")
    ELSE IF FindPlan(planId) = {} THEN Reply(404, "Plano não encontrado ou inativo")
    ELSE IF u \in DOMAIN subscriptions /\ subscriptions[u].status = "ACTIVE"
    THEN Reply(400, "Usuário já possui assinatura ativa")
    ELSE Passed

\* prisma.subscription.create: Subscription.userId is @unique, so the insert
\* fails with P2002 when the user has a row, whatever its status
CreateSubscription(u, planId) ==
    IF u \in DOMAIN subscriptions
    THEN resp' = Duplicate /\ UNCHANGED subscriptions
    ELSE /\ subscriptions' = Put(subscriptions, u,
                                 [status |-> "PENDING", planId |-> planId])
         /\ resp' = Subscribed

\* POST /subscriptions/subscribe
Subscribe(u, planId) ==
    /\ UNCHANGED <<envVars, procs>>
    /\ IF authenticate(u) # Passed THEN Refuse(authenticate(u))
       ELSE IF SubscribeVerdict(u, planId) # Passed
       THEN Refuse(SubscribeVerdict(u, planId))
       ELSE /\ CreateSubscription(u, planId)
            /\ UNCHANGED <<ledgerVars, shopVars, dataRequests, billingHistory,
                           addresses, userConsents, auditLogs>>

\* POST /subscriptions/cancel: the update, then prisma.activityLog.create,
\* which may fail after the update is committed
CancelSubscription(u, logOk) ==
    /\ UNCHANGED <<adminEmailsEnv, nodeEnv, now, outbox, procs>>
    /\ IF authenticate(u) # Passed
       THEN Refuse(authenticate(u)) /\ UNCHANGED activityLogs
       ELSE IF u \notin DOMAIN subscriptions
       THEN Refuse(Reply(404, "Assinatura não encontrada")) /\ UNCHANGED activityLogs
       ELSE IF subscriptions[u].status = "CANCELED"
       THEN Refuse(Reply(400, "Assinatura já cancelada")) /\ UNCHANGED activityLogs
       ELSE /\ subscriptions' = [subscriptions EXCEPT ![u].status = "CANCELED"]
            /\ activityLogs' = IF logOk
                               THEN Append(activityLogs,
                                        [userId |-> u, action |-> "SUBSCRIPTION_CANCELED"])
                               ELSE activityLogs
            /\ resp' = IF logOk THEN SubscriptionCanceled ELSE InternalError
            /\ UNCHANGED <<ledgerVars, shopVars, dataRequests, billingHistory,
                           addresses, userConsents, auditLogs>>

PlanInputs == {"", "basic-plan", "premium-plan", "legacy-plan", "no-plan"}

InitSubscribe ==
    /\ \E adminRow \in {SeedAdmin, RegisteredAdmin} : InitDatabase(adminRow)
    /\ adminEmailsEnv = {<<AdminEmail>>}
    /\ nodeEnv = "production"
    /\ resp = NoResponse
    /\ procs = NoProcs

SubscribeStep == \E u \in UserIds, planId \in PlanInputs : Subscribe(u, planId)
CancelStep == \E u \in UserIds, logOk \in BOOLEAN : CancelSubscription(u, logOk)

NextSubscribe == SubscribeStep \/ CancelStep

SpecSubscribe == InitSubscribe /\ [][NextSubscribe]_vars

\* C24: POST /subscriptions/subscribe succeeds (201, the user then has a
\* subscription in PENDING for the chosen plan) for every authenticated user
\* who names an existing active plan and has no ACTIVE subscription, also
\* when an earlier subscription is CANCELED or still PENDING; it is refused
\* only when the plan is missing or inactive or the subscription is ACTIVE.
C24_SubscribeSucceeds ==
    [][ \A u \in UserIds, planId \in PlanInputs \ {""} :
          (Subscribe(u, planId) /\ authenticate(u) = Passed)
          => IF FindPlan(planId) # {}
                /\ ~(u \in DOMAIN subscriptions /\ subscriptions[u].status = "ACTIVE")
             THEN /\ resp' = Subscribed
                  /\ u \in DOMAIN subscriptions'
                  /\ subscriptions'[u] = [status |-> "PENDING", planId |-> planId]
             ELSE resp'.status # 201 /\ subscriptions' = subscriptions ]_vars

----------------------------------------------------------------------------
(* coupon routes: POST /coupons/validate; SpecCoupons *)

\* seed.ts: prisma.coupon.upsert({where: {code}, update: {}, create: row});
\* the table has no other writer, the operator fills it this way
UpsertCoupon(id, row) ==
    /\ \A c \in DOMAIN coupons : coupons[c].code # row.code
    /\ id \notin DOMAIN coupons
    /\ coupons' = Put(coupons, id, row)
    /\ UNCHANGED <<ledgerVars, userCoupons, orders, products, lgpdVars, envVars,
                   resp, procs>>

\* the discount of POST /coupons/validate: the one of the coupon, then
\* if (discount > cartTotal) discount = cartTotal
ValidateDiscount(c, cartTotal) ==
    IF Discount(c, cartTotal) > cartTotal THEN cartTotal
    ELSE Discount(c, cartTotal)

\* res.json({success: true, data: {coupon: {..., discount}}})
CouponValid(discount) ==
    [status |-> 200, message |-> "data.coupon", discount |-> discount]

ValidateVerdict(u, code, cartTotal) ==
    IF authenticate(u) # Passed THEN authenticate(u)
    ELSE IF code = "" THEN Reply(400, "Código do cupom é obrigatório")
    ELSE IF FindCoupon(code) = {} THEN Reply(400, "Cupom inválido ou expirado")
    ELSE LET c == CHOOSE id \in FindCoupon(code) : TRUE
         IN  IF CheckUsage(ReadUsage(u, c), c) # Passed
             THEN CheckUsage(ReadUsage(u, c), c)
             ELSE IF CheckMinimum(c, cartTotal) # Passed
             THEN CheckMinimum(c, cartTotal)
             ELSE CouponValid(ValidateDiscount(c, cartTotal))

\* POST /coupons/validate reads only
ValidateCoupon(u, code, cartTotal) ==
    /\ resp' = ValidateVerdict(u, code, cartTotal)
    /\ UNCHANGED <<ledgerVars, shopVars, lgpdVars, envVars, procs>>

\* a gift voucher of R$ 100,00 with no minimum amount
GiftCoupon == CouponRow("VALE100", "FIXED_AMOUNT", 10000, <<>>, 1)

CouponCodes == {"", "BEMVINDO10", "FRETEGRATIS", "VALE100", "NATAL"}
CartTotals == {0, 3000, 6000, 12000}
CouponBodies ==
    { OrderBody(Cart(n), "Rua das Flores, 10", "pix", code) :
        n \in {1, 2}, code \in {ABSENT, "BEMVINDO10", "FRETEGRATIS", "VALE100"} }

InitCoupons ==
    /\ InitDatabase(SeedAdmin)
    /\ adminEmailsEnv = {<<AdminEmail>>}
    /\ nodeEnv = "production"
    /\ resp = NoResponse
    /\ procs = [p \in OrderRequests |-> IdleOrder]

CouponSeedStep == UpsertCoupon("c3", GiftCoupon)
CouponValidateStep ==
    \E u \in {"u1", "n1"}, code \in CouponCodes, cartTotal \in CartTotals :
        ValidateCoupon(u, code, cartTotal)
CouponOrderStep ==
    \E p \in OrderRequests, body \in CouponBodies : OrderReceive(p, "u1", body)

NextCoupons ==
    \/ CouponSeedStep
    \/ CouponValidateStep
    \/ CouponOrderStep
    \/ OrderCouponStep
    \/ OrderUsageStep
    \/ OrderCreateStep
    \/ OrderUpsertStep

SpecCoupons == InitCoupons /\ [][NextCoupons]_vars

\* C25: the discount answered by POST /coupons/validate is at most the
\* cartTotal of the request, and every order stored by POST /orders has a
\* discount of at most its subtotal and a total that is not negative.
C25_DiscountWithinAmount ==
    /\ [][\A u \in {"u1", "n1"}, code \in CouponCodes, cartTotal \in CartTotals :
            (ValidateCoupon(u, code, cartTotal) /\ resp'.status = 200)
                => resp'.discount <= cartTotal]_vars
    /\ [](\A i \in DOMAIN orders :
            /\ orders[i].discount <= orders[i].subtotal
            /\ orders[i].total >= 0)

----------------------------------------------------------------------------
(* SpecDeactivated: tokens and logins of a user whose data were anonymized *)

\* a route behind router.use(authenticate), called with `Bearer token`
WithBearer(token, Handler(_)) ==
    IF jwtVerify(token, procs[1].day) # "decoded"
    THEN /\ resp' = Reply(401, "Token inválido")
         /\ UNCHANGED <<ledgerVars, shopVars, lgpdVars, envVars, procs>>
    ELSE Handler(token.id)

Bearers == {t[2] : t \in procs[1].issued} \cup ForgedTokens
Deactivated == {u \in DOMAIN users : ~users[u].isActive}

DeactEmails == {Email("maria", "example.com"), AnonymizedEmail("u1")}
DeactProfiles == { ProfileBody("Mariana", ABSENT, ABSENT, ABSENT) }

InitDeactivated ==
    /\ \E adminRow \in {SeedAdmin, RegisteredAdmin} : InitDatabase(adminRow)
    /\ adminEmailsEnv = {<<AdminEmail>>}
    /\ nodeEnv = "production"
    /\ resp = NoResponse
    /\ procs = [p \in {1} |-> TokenProc(0, {}, {})]

DeactLoginStep ==
    \E email \in DeactEmails, passwordOk \in BOOLEAN :
        /\ Cardinality(Logins) < MaxLogins
        /\ Login(email, passwordOk)
DeactProfileStep == \E token \in Bearers : GetProfile(token)
DeactPutStep ==
    \E token \in Bearers, body \in DeactProfiles :
        WithBearer(token, LAMBDA u : PutProfile(u, body))
DeactErasureStep ==
    \E token \in Bearers :
        /\ WithBearer(token, RequestErasure)
        /\ Len(dataRequests') <= MaxProcessRows
DeactProcessStep ==
    \E id \in 1..MaxProcessRows, action \in ProcessActions :
        /\ ProcessDataRequest("a1", id, action, TRUE, TRUE)
        /\ Len(dataRequests') <= MaxProcessRows

NextDeactivated ==
    \/ DeactLoginStep
    \/ DeactProfileStep
    \/ DeactPutStep
    \/ DeactErasureStep
    \/ DeactProcessStep

SpecDeactivated == InitDeactivated /\ [][NextDeactivated]_vars

\* C26: once a user is anonymized (isActive false), every request that
\* carries a token of that user is answered 401 by authenticate and changes
\* no data, and every login with the former or the anonymized email of the
\* user is answered 401 and issues no token.
C26_DeactivatedLockedOut ==
    [][ /\ \A token \in Bearers :
              token.id \in Deactivated =>
                  ((\/ GetProfile(token)
                    \/ WithBearer(token, RequestErasure)
                    \/ \E body \in DeactProfiles :
                          WithBearer(token, LAMBDA u : PutProfile(u, body)))
                   => /\ resp'.status = 401
                      /\ UNCHANGED <<ledgerVars, shopVars, lgpdVars>>)
        /\ \A email \in DeactEmails, passwordOk \in BOOLEAN :
              (/\ Login(email, passwordOk)
               /\ \/ UserByEmail(email) \cap Deactivated # {}
                  \/ email = Email("maria", "example.com") /\ "u1" \in Deactivated)
              => /\ resp'.status = 401
                 /\ procs'[1].issued = procs[1].issued ]_vars

\* the anonymized user held a token, and a request with it was turned away
C26_Witness ==
    /\ users["u1"] = AnonymizedRow("u1")
    /\ \E token \in procs[1].bearer :
          /\ token.id = "u1"
          /\ <<"access", token>> \in procs[1].issued
    /\ resp = Reply(401, "Conta desativada")

----------------------------------------------------------------------------
(* middleware/security.ts: detectSuspiciousActivity; SpecSuspicious *)

OneHour == 1            \* const oneHour = 60 * 60 * 1000; the clock ticks in hours
SuspiciousMax == 100    \* if (suspiciousData.count > 100)
MaxHour == 2            \* hours the clock of SpecSuspicious runs
MaxHits == 102          \* requests handled in SpecSuspicious

SuspiciousActivity == Reply(429, "Atividade suspeita detectada")

\* the module-level Map suspiciousIPs and the clock; previous and current are
\* the requests of the address in the hour before this one and in this one,
\* exceeded the hours at which the count of the address passed the threshold
SuspiciousProc(clock, suspiciousIPs, previous, current, exceeded) ==
    [clock |-> clock, suspiciousIPs |-> suspiciousIPs,
     previous |-> previous, current |-> current, exceeded |-> exceeded]

\* the loop 'Limpar IPs antigos'
CleanSuspicious(table, clock) ==
    [ip \in {i \in DOMAIN table : ~(clock - table[i].lastSeen > OneHour)}
        |-> table[ip]]

\* the entry of the address after the request
CountRequest(table, ip, clock) ==
    IF ip \in DOMAIN table
    THEN Put(table, ip, [count |-> table[ip].count + 1, lastSeen |-> clock])
    ELSE Put(table, ip, [count |-> 1, lastSeen |-> clock])

SuspiciousVerdict(table, ip) ==
    IF ip \in DOMAIN table /\ table[ip].count + 1 > SuspiciousMax
    THEN SuspiciousActivity
    ELSE Passed

\* detectSuspiciousActivity on a request of address ip
detectSuspiciousActivity(ip) ==
    LET table == CleanSuspicious(procs[1].suspiciousIPs, procs[1].clock)
    IN  /\ resp' = SuspiciousVerdict(table, ip)
        /\ procs' = [procs EXCEPT
              ![1].suspiciousIPs = CountRequest(table, ip, procs[1].clock),
              ![1].current = @ + 1,
              ![1].exceeded = IF /\ SuspiciousVerdict(table, ip) = SuspiciousActivity
                                 /\ procs[1].exceeded = {}
                              THEN {procs[1].clock} ELSE @]
        /\ UNCHANGED <<ledgerVars, shopVars, lgpdVars, envVars>>

\* an hour passes
NextHour ==
    /\ procs' = [procs EXCEPT ![1].clock = @ + 1,
                              ![1].previous = procs[1].current,
                              ![1].current = 0]
    /\ UNCHANGED <<ledgerVars, shopVars, lgpdVars, envVars, resp>>

InitSuspicious ==
    /\ InitDatabase(SeedAdmin)
    /\ adminEmailsEnv = {<<AdminEmail>>}
    /\ nodeEnv = "production"
    /\ resp = NoResponse
    /\ procs = [p \in {1} |-> SuspiciousProc(0, EmptyTable, 0, 0, {})]

SuspiciousRequestStep ==
    /\ "ip1" \in DOMAIN procs[1].suspiciousIPs
          => procs[1].suspiciousIPs["ip1"].count < MaxHits
    /\ detectSuspiciousActivity("ip1")
SuspiciousHourStep == procs[1].clock < MaxHour /\ NextHour

NextSuspicious == SuspiciousRequestStep \/ SuspiciousHourStep

SpecSuspicious == InitSuspicious /\ [][NextSuspicious]_vars

\* C27: detectSuspiciousActivity answers 429 only if the address made more
\* than 100 requests within the preceding hour, and lets the address through
\* again once more than an hour has passed since it exceeded the threshold.
C27_SuspiciousOnlyAboveThreshold ==
    [][detectSuspiciousActivity("ip1") =>
          /\ resp' = SuspiciousActivity
                => procs'[1].previous + procs'[1].current > SuspiciousMax
          /\ (\E h \in procs[1].exceeded : procs[1].clock - h > OneHour)
                => resp' = Passed ]_vars

----------------------------------------------------------------------------
(* middleware/errorHandler.ts: cacheMiddleware; SpecCache *)

CacheDuration == 300    \* duration: number = 300, in seconds
MaxClock == 400         \* seconds the clock of SpecCache runs

\* the Map of the middleware, the clock, and the last request: who sent it
\* and the X-Cache header of its response
CacheProc(clock, cache, user, xCache) ==
    [clock |-> clock, cache |-> cache, user |-> user, xCache |-> xCache]

\* GET /user/profile and GET /auth/me answer {success, data: {user}} with the
\* row of req.user.id; POST /auth/logout answers a message
RouteJson(method, url, u) ==
    IF method = "GET" THEN HttpResponse(200, <<"data.user", u>>)
    ELSE HttpResponse(200, <<"Logout realizado com sucesso", "">>)

\* if (cached && Date.now() - cached.timestamp < duration * 1000)
CacheHit(cache, url, clock) ==
    url \in DOMAIN cache /\ clock - cache[url].timestamp < CacheDuration

\* const key = req.originalUrl
CacheKey(url, u) == url

\* authenticate, then the middleware in front of the route; the sweep of
\* old entries starts above 1000 entries and answers nothing
cacheMiddleware(method, url, u) ==
    LET key == CacheKey(url, u)
        cache == procs[1].cache
        clock == procs[1].clock
    IN  /\ UNCHANGED <<ledgerVars, shopVars, lgpdVars, envVars>>
        /\ IF authenticate(u) # Passed
           THEN /\ resp' = HttpResponse(authenticate(u).status,
                                        <<authenticate(u).message, "">>)
                /\ procs' = [procs EXCEPT ![1].user = {u}, ![1].xCache = ""]
           ELSE IF method # "GET"
           THEN /\ resp' = RouteJson(method, url, u)
                /\ procs' = [procs EXCEPT ![1].user = {u}, ![1].xCache = ""]
           ELSE IF CacheHit(cache, key, clock)
           THEN /\ resp' = HttpResponse(200, cache[key].data)
                /\ procs' = [procs EXCEPT ![1].user = {u}, ![1].xCache = "HIT"]
           ELSE /\ resp' = RouteJson(method, url, u)
                /\ procs' = [procs EXCEPT
                      ![1].user = {u}, ![1].xCache = "MISS",
                      ![1].cache = Put(cache, key,
                                       [data |-> RouteJson(method, url, u).body,
                                        timestamp |-> clock])]

\* the clock advances by 100 seconds
CacheClock ==
    /\ procs' = [procs EXCEPT ![1].clock = @ + 100]
    /\ UNCHANGED <<ledgerVars, shopVars, lgpdVars, envVars, resp>>

CacheRoutes == { <<"GET", "/api/user/profile">>, <<"GET", "/api/auth/me">>,
                 <<"POST", "/api/auth/logout">> }

InitCache ==
    /\ InitDatabase(SeedAdmin)
    /\ adminEmailsEnv = {<<AdminEmail>>}
    /\ nodeEnv = "production"
    /\ resp = NoResponse
    /\ procs = [p \in {1} |-> CacheProc(0, EmptyTable, {}, "")]

CacheRequestStep ==
    \E route \in CacheRoutes, u \in {"u1", "u2", "u3"} :
        cacheMiddleware(route[1], route[2], u)
CacheClockStep == procs[1].clock < MaxClock /\ CacheClock

NextCache == CacheRequestStep \/ CacheClockStep

SpecCache == InitCache /\ [][NextCache]_vars

\* C28: a request of an authenticated user is never answered with a body
\* that was produced for another user.
C28_CacheKeepsUsersApart ==
    \A u \in procs[1].user :
        (resp.status = 200 /\ resp.body[1] = "data.user") => resp.body[2] = u

----------------------------------------------------------------------------
(* utils: BackupService.initialize, one step per await; SpecBackupInit *)

MaxInitCalls == 4       \* calls of initialize in SpecBackupInit

\* the static fields of the class, the cron jobs of the process, the backup
\* directory, and the position of every call of initialize
BackupInitProc(isInitialized, jobs, dirExists, calls) ==
    [isInitialized |-> isInitialized, jobs |-> jobs, dirExists |-> dirExists,
     calls |-> calls]

\* scheduleBackups: three calls of cron.schedule
scheduleBackups(jobs) == jobs \o << "0 2 * * *", "0 */6 * * *", "0 3 * * 0" >>

\* if (this.isInitialized) return; then await fs.mkdir(...) is started
InitializeEnter(p) ==
    /\ procs.calls[p] = "idle"
    /\ procs' = [procs EXCEPT !.calls[p] = IF procs.isInitialized THEN "returned"
                                           ELSE "mkdir"]
    /\ UNCHANGED <<ledgerVars, shopVars, lgpdVars, envVars, resp>>

\* fs.mkdir settles: scheduleBackups and isInitialized = true, or the catch
\* that logs the error
InitializeMkdir(p, mkdirOk) ==
    /\ procs.calls[p] = "mkdir"
    /\ procs' = IF mkdirOk
                THEN [procs EXCEPT !.dirExists = TRUE,
                                   !.jobs = scheduleBackups(procs.jobs),
                                   !.isInitialized = TRUE,
                                   !.calls[p] = "returned"]
                ELSE [procs EXCEPT !.calls[p] = "failed"]
    /\ UNCHANGED <<ledgerVars, shopVars, lgpdVars, envVars, resp>>

InitBackupInit ==
    /\ InitDatabase(SeedAdmin)
    /\ adminEmailsEnv = {<<AdminEmail>>}
    /\ nodeEnv = "production"
    /\ resp = NoResponse
    /\ procs = BackupInitProc(FALSE, <<>>, FALSE,
                              [p \in 1..MaxInitCalls |-> "idle"])

InitializeEnterStep == \E p \in 1..MaxInitCalls : InitializeEnter(p)
InitializeMkdirStep ==
    \E p \in 1..MaxInitCalls, mkdirOk \in BOOLEAN : InitializeMkdir(p, mkdirOk)

NextBackupInit == InitializeEnterStep \/ InitializeMkdirStep

SpecBackupInit == InitBackupInit /\ [][NextBackupInit]_vars

\* C29: however many times initialize is called, overlapping calls included,
\* every cron job of the backup service is scheduled at most once.
C29_ScheduledOnce ==
    \A i, j \in DOMAIN procs.jobs : procs.jobs[i] = procs.jobs[j] => i = j

----------------------------------------------------------------------------
(* utils: BackupService.createFullBackup and restoreBackup; SpecRestore *)

MaxBackups == 2         \* backups started in SpecRestore
MaxGeneration == 1      \* writes to the database in SpecRestore
MaxRestores == 2        \* runs of the restore command in SpecRestore

\* a file of the backup directory: enc tells the encrypted file from the
\* plain dump, content is the generation of the database it holds, {} when
\* the file cannot be parsed or decrypted
BackupFile(name, enc, content) == [name |-> name, enc |-> enc, content |-> content]

\* the backup directory, the database as the generation of its data, the
\* number of backups started, the runs of psql and how the last call ended
RestoreProc(files, database, serial, psqlRuns, result) ==
    [files |-> files, database |-> database, serial |-> serial,
     psqlRuns |-> psqlRuns, result |-> result]

BackupAuditRow(adminId, eventType) ==
    [userId |-> NULL, adminId |-> adminId, eventType |-> eventType,
     entity |-> NULL, entityId |-> NULL]

\* AuditService.logEvent on a log: the row is added unless the write fails
Logged(log, row, auditOk) == IF auditOk THEN Append(log, row) ELSE log

BackupOutcomes == {"ok", "no-url", "pg_dump", "encrypt", "unlink"}

\* createFullBackup: the files it leaves in the directory; outcome names the
\* statement that throws, "ok" when none does
FullBackupFiles(files, database, serial, outcome) ==
    LET name == <<"backup-full", serial>>
        dump == BackupFile(name, FALSE, {})
        encrypted == BackupFile(name, TRUE, {database})
    IN  CASE outcome = "no-url" -> files
          [] outcome = "pg_dump" -> files \cup {dump}
          [] outcome = "encrypt" -> files \cup {dump}
          [] outcome = "unlink" -> files \cup {dump, encrypted}
          [] OTHER -> files \cup {encrypted}

\* createFullBackup called on its own (the daily cron job)
createFullBackup(outcome, auditOk) ==
    /\ procs' = [procs EXCEPT
          !.files = FullBackupFiles(procs.files, procs.database,
                                    procs.serial, outcome),
          !.serial = @ + 1,
          !.result = IF outcome = "ok" THEN "resolved" ELSE "rejected"]
    /\ auditLogs' = IF outcome = "ok"
                    THEN Logged(auditLogs, BackupAuditRow(NULL, "BACKUP_CREATED"),
                                auditOk)
                    ELSE auditLogs
    /\ UNCHANGED <<ledgerVars, shopVars, dataRequests, subscriptions,
                   billingHistory, addresses, userConsents, envVars, resp>>

\* fs.access, fs.readFile, JSON.parse and decrypt of the file named
ReadBackup(filename) ==
    IF \E f \in procs.files : f.name = filename /\ f.enc
    THEN (CHOOSE f \in procs.files : f.name = filename /\ f.enc).content
    ELSE {}

\* variant: a failed safety backup is logged and the restore goes on
restoreBackupUnguarded(filename, adminId, outcome, psqlOk, auditOk) ==
    IF ReadBackup(filename) = {}
    THEN /\ procs' = [procs EXCEPT !.result = "rejected"]
         /\ UNCHANGED <<ledgerVars, shopVars, lgpdVars, envVars, resp>>
    ELSE /\ procs' = [procs EXCEPT
               !.files = FullBackupFiles(procs.files, procs.database,
                                         procs.serial, outcome),
               !.serial = @ + 1,
               !.psqlRuns = @ + 1,
               !.database = IF psqlOk
                            THEN CHOOSE g \in ReadBackup(filename) : TRUE
                            ELSE @,
               !.result = IF psqlOk THEN "resolved" ELSE "rejected"]
         /\ auditLogs' =
              LET created == IF outcome = "ok"
                             THEN Logged(auditLogs,
                                         BackupAuditRow(NULL, "BACKUP_CREATED"),
                                         auditOk)
                             ELSE auditLogs
              IN  IF psqlOk
                  THEN Logged(created, BackupAuditRow(adminId, "BACKUP_RESTORED"),
                              auditOk)
                  ELSE created
         /\ UNCHANGED <<ledgerVars, shopVars, dataRequests, subscriptions,
                        billingHistory, addresses, userConsents, envVars, resp>>

\* restoreBackup: the file is read and decrypted, createFullBackup makes the
\* safety backup, psql runs the dump, the event is logged; every statement
\* that throws ends the call
restoreBackup(filename, adminId, outcome, psqlOk, auditOk) ==
    IF ReadBackup(filename) = {}
    THEN /\ procs' = [procs EXCEPT !.result = "rejected"]
         /\ UNCHANGED <<ledgerVars, shopVars, lgpdVars, envVars, resp>>
    ELSE IF outcome # "ok"
    THEN /\ procs' = [procs EXCEPT
               !.files = FullBackupFiles(procs.files, procs.database,
                                         procs.serial, outcome),
               !.serial = @ + 1,
               !.result = "rejected"]
         /\ UNCHANGED <<ledgerVars, shopVars, lgpdVars, envVars, resp>>
    ELSE /\ procs' = [procs EXCEPT
               !.files = FullBackupFiles(procs.files, procs.database,
                                         procs.serial, outcome),
               !.serial = @ + 1,
               !.psqlRuns = @ + 1,
               !.database = IF psqlOk
                            THEN CHOOSE g \in ReadBackup(filename) : TRUE
                            ELSE @,
               !.result = IF psqlOk THEN "resolved" ELSE "rejected"]
         /\ auditLogs' =
              LET created == Logged(auditLogs,
                                    BackupAuditRow(NULL, "BACKUP_CREATED"), auditOk)
              IN  IF psqlOk
                  THEN Logged(created, BackupAuditRow(adminId, "BACKUP_RESTORED"),
                              auditOk)
                  ELSE created
         /\ UNCHANGED <<ledgerVars, shopVars, dataRequests, subscriptions,
                        billingHistory, addresses, userConsents, envVars, resp>>

\* the application writes to the database
WriteData ==
    /\ procs' = [procs EXCEPT !.database = @ + 1]
    /\ UNCHANGED <<ledgerVars, shopVars, lgpdVars, envVars, resp>>

\* a backup that a crash left truncated
DamagedBackup == BackupFile(<<"backup-full", 0>>, TRUE, {})

InitRestore ==
    /\ InitDatabase(SeedAdmin)
    /\ adminEmailsEnv = {<<AdminEmail>>}
    /\ nodeEnv = "production"
    /\ resp = NoResponse
    /\ procs = RestoreProc({DamagedBackup}, 0, 1, 0, "")

RestoreNames == {<<"backup-full", n>> : n \in 0..MaxBackups + 1}

RestoreBackupStep ==
    \E outcome \in BackupOutcomes, auditOk \in BOOLEAN :
        /\ procs.serial <= MaxBackups
        /\ createFullBackup(outcome, auditOk)
RestoreStep ==
    \E filename \in RestoreNames, outcome \in BackupOutcomes,
       psqlOk \in BOOLEAN, auditOk \in BOOLEAN :
        /\ procs.serial <= MaxBackups
        /\ procs.psqlRuns < MaxRestores
        /\ restoreBackup(filename, "a1", outcome, psqlOk, auditOk)
RestoreWriteStep == procs.database < MaxGeneration /\ WriteData

NextRestore == RestoreBackupStep \/ RestoreStep \/ RestoreWriteStep

SpecRestore == InitRestore /\ [][NextRestore]_vars

RestoredRows(log) ==
    {i \in DOMAIN log : log[i].eventType = "BACKUP_RESTORED"}

\* C30: a call of restoreBackup runs the restore command only after its own
\* full safety backup of the database was completed; when the file is
\* missing or cannot be decrypted, or the safety backup fails, the call is
\* rejected, the restore command is not run and no BACKUP_RESTORED event is
\* recorded.
C30_RestoreAfterSafetyBackup ==
    [][\A filename \in RestoreNames, outcome \in BackupOutcomes,
          psqlOk \in BOOLEAN, auditOk \in BOOLEAN :
          restoreBackup(filename, "a1", outcome, psqlOk, auditOk) =>
              /\ procs'.psqlRuns # procs.psqlRuns =>
                    BackupFile(<<"backup-full", procs.serial>>, TRUE,
                               {procs.database}) \in procs'.files \ procs.files
              /\ (ReadBackup(filename) = {} \/ outcome # "ok") =>
                    /\ procs'.result = "rejected"
                    /\ procs'.psqlRuns = procs.psqlRuns
                    /\ procs'.database = procs.database
                    /\ RestoredRows(auditLogs') = RestoredRows(auditLogs) ]_vars

\* a restore that ran: the database is back at the generation of the backup
\* taken before the write, and the event is recorded
C30_Witness ==
    /\ procs.psqlRuns > 0
    /\ procs.result = "resolved"
    /\ RestoredRows(auditLogs) # {}
    /\ BackupFile(<<"backup-full", 2>>, TRUE, {1}) \in procs.files
    /\ procs.database = 0

====
